---------------------------- MODULE Spec2Model ----------------------------
(***************************************************************************)
(* Model of the mindMate python service worker (src/worker.py) and of the  *)
(* collaborators its pipelines call (src/utils/*.py).                      *)
(*                                                                         *)
(* State: the four Redis lists, the four poller threads, the thread        *)
(* pool (its work queue and the process_task calls in progress), the       *)
(* module-level set processed_tasks with processing_lock, and the          *)
(* document collection.  A pipeline (process_*_task) is sequential code    *)
(* whose only write to shared state is the single update_one call, so it   *)
(* is computed by an operator and applied by one action; the state in      *)
(* which an execution has pc = "pipeline" is the pipeline in progress.     *)
(***************************************************************************)
EXTENDS Integers, Sequences, FiniteSets, TLC

(***************************************************************************)
(* Bounds of the model and constants of the program.                       *)
(***************************************************************************)
\* Elements initially in the Redis lists under Spec.
MaxTasks == 2
\* Elements initially in the Redis lists under SpecPool.
MaxPoolTasks == 5
\* Elements initially in the Redis lists under SpecPipe.
MaxPipeTasks == 1
\* Elements initially in the Redis lists under SpecPoll.
MaxPollTasks == 1
\* Elements initially in the Redis lists under SpecLive.
MaxLiveTasks == 2
\* Calls of process_task submitted under SpecDirect.
MaxDirectCalls == 2
\* Elements initially in the Redis lists under SpecStore.
MaxStoreTasks == 2
\* The Redis elements of a run in which a pipeline stage may never return.
MaxStuckTasks == 2
\* The Redis elements of a run with the status loop of the main thread.
MaxSharedTasks == 2
\* WORKER_CONFIG['max_workers']
max_workers == 4

None == "None"
Unbound == "unbound"

queues == <<"process-pdf", "process-text", "process-ytvideo", "process-website">>
QueueNames == {queues[i] : i \in 1..Len(queues)}

(***************************************************************************)
(* JSON texts and their parsing.  An object text is the sequence of its    *)
(* key/value pairs as written; json_loads makes a dict of it (a function   *)
(* on its keys, the last pair of a key winning), and                       *)
(* json.dumps(sort_keys=True) writes the dict with its keys in order.      *)
(***************************************************************************)
Pair(k, v) == [key |-> k, val |-> v]

ObjText(pairs) == [kind |-> "object", pairs |-> pairs]
ArrayText == [kind |-> "array", pairs |-> <<>>]
BadText == [kind |-> "malformed", pairs |-> <<>>]

\* The keys that occur in payloads, in the order sort_keys puts them.
SortedKeys == <<"documentId", "id", "userId">>

NotADict == [kind |-> "list", items |-> <<>>]
JSONDecodeError == [kind |-> "JSONDecodeError", items |-> <<>>]

RECURSIVE LastVal(_, _, _)
LastVal(pairs, k, dflt) ==
    IF pairs = <<>> THEN dflt
    ELSE LET p == pairs[Len(pairs)]
         IN IF p.key = k THEN p.val
            ELSE LastVal(SubSeq(pairs, 1, Len(pairs) - 1), k, dflt)

\* json.loads: raises JSONDecodeError (here: returns the value of that name) on
\* a malformed text; a JSON array loads as a list, an object as a dict.
LooseLoads(text) == NotADict

json_loads(text) ==
    CASE text.kind = "malformed" -> JSONDecodeError
      [] text.kind = "array" -> NotADict
      [] OTHER ->
           LET keys == {text.pairs[i].key : i \in 1..Len(text.pairs)}
           IN [kind |-> "dict",
               items |-> [k \in keys |-> LastVal(text.pairs, k, None)]]

\* json.dumps(task_data, sort_keys=True): the canonical text of the value.
json_dumps_sorted(task_data) ==
    IF task_data.kind = "list" THEN <<Pair("[]", "[]")>>
    ELSE LET ks == SelectSeq(SortedKeys, LAMBDA k : k \in DOMAIN task_data.items)
         IN [i \in 1..Len(ks) |-> Pair(ks[i], task_data.items[ks[i]])]

\* hash(str): equal strings hash equally within a process; collisions of
\* distinct strings are not modelled.
TaskHash(task_data) == json_dumps_sorted(task_data)

\* dict.get(key): None when the key is absent.
Get(task_data, k) ==
    IF k \in DOMAIN task_data.items THEN task_data.items[k] ELSE None

\* Python truthiness of an optional string.
AlwaysTruthy(v) == TRUE

\* The truth value Python gives a value that is None or a string.
Truthy(v) == v # None /\ v # ""


(***************************************************************************)
(* The document collection (src/utils/mongodb.py).  A document is a dict   *)
(* of string fields; the collection maps _id to document.                  *)
(***************************************************************************)
DocIds == {"d1", "d2"}
VideoLink == "https://youtube.com/watch?v=abc"
PageLink == "https://example.org/page"
Notes == "Mitochondria produce ATP."
HARDCODED_URL == "https://www.geeksforgeeks.org/dsa/array-data-structure-guide/"

\* What the environment decides during one pipeline run: the outcome of the
\* store read (ok; error: an exception inside the method, caught there;
\* down: get_mongo_connection raises), of the download or scrape, the text
\* an extraction, transcript or scrape yields, the generator's answer, and
\* the outcome of update_one (ok; error: it raises, caught in the method;
\* gone: the application has deleted the document since the read).
Envs == [read : {"ok", "error", "down"},
         io   : {"ok", "fail", "raise"},
         text : {"text", ""},
         gen  : {"artifact", "error"},
         upd  : {"ok", "error", "gone"}]

\* The same for the pdf pipeline: io is get_s3_client (ok, or raise when the
\* client cannot be built), s3, http and alt the outcomes of the three
\* download strategies, extract what process_pdf yields.
PdfEnvs == [read : {"ok", "error", "down"},
            io : {"ok", "raise"},
            s3 : {"ok", "fail"},
            http : {"ok", "fail"},
            alt : {"ok", "fail"},
            extract : {"text", "", "raise"},
            gen : {"artifact", "error"},
            upd : {"ok", "error", "gone"}]

EnvsOf(queue_name) == IF queue_name = "process-pdf" THEN PdfEnvs ELSE Envs

Field(doc, f, dflt) == IF f \in DOMAIN doc THEN doc[f] ELSE dflt

find_by_id(coll, document_id, user_id) ==
    IF document_id \in DOMAIN coll
    THEN [found |-> TRUE, doc |-> coll[document_id]]
    ELSE [found |-> FALSE, doc |-> <<>>]

\* collection.find_one({"_id": ..., "userId": ...})
find_one(coll, document_id, user_id) ==
    IF document_id \in DOMAIN coll /\ coll[document_id]["userId"] = user_id
    THEN [found |-> TRUE, doc |-> coll[document_id]]
    ELSE [found |-> FALSE, doc |-> <<>>]

get_document_content(coll, document_id, user_id, env) ==
    IF env.read = "error" THEN None
    ELSE LET document == find_one(coll, document_id, user_id)
         IN IF ~document.found THEN None
            ELSE LET content == Field(document.doc, "content", "")
                 IN IF ~Truthy(content)
                    THEN Field(document.doc, "text", Field(document.doc, "body", ""))
                    ELSE content

get_document_file_url(coll, document_id, user_id, env) ==
    IF env.read = "error" THEN None
    ELSE LET document == find_one(coll, document_id, user_id)
         IN IF ~document.found THEN None
            ELSE LET file_url == Field(document.doc, "fileUrl",
                                   Field(document.doc, "file_url",
                                     Field(document.doc, "url",
                                       Field(document.doc, "pdfUrl", ""))))
                 IN IF Truthy(file_url) THEN file_url ELSE None

\* The same with the branch of a generator error taken for every value,
\* and with the branch of an artifact taken for every value.
UpdateSetFailed(generated_data) ==
    [f \in {"summary_status", "flashcard_status", "mcq_status",
             "processing_error", "updated_at"} |->
        CASE f = "processing_error" -> Field(generated_data, "error", "Unknown error")
          [] f = "updated_at" -> "now"
          [] OTHER -> "FAILED"]

UpdateSetCompleted(generated_data) ==
    [f \in {"summary", "flashcards", "mcqs", "summary_status",
             "flashcard_status", "mcq_status", "updated_at"} |->
        CASE f \in {"summary", "flashcards", "mcqs"} -> Field(generated_data, f, "")
          [] f = "updated_at" -> "now"
          [] OTHER -> "COMPLETED"]

\* The $set of an update that also resets what the other kind of update
\* last wrote.
UpdateSetResetting(generated_data) ==
    IF "error" \in DOMAIN generated_data
    THEN [f \in {"summary", "flashcards", "mcqs", "summary_status",
                 "flashcard_status", "mcq_status", "processing_error",
                 "updated_at"} |->
            CASE f \in {"summary", "flashcards", "mcqs"} -> None
              [] f = "processing_error" -> generated_data["error"]
              [] f = "updated_at" -> "now"
              [] OTHER -> "FAILED"]
    ELSE [f \in {"summary", "flashcards", "mcqs", "summary_status",
                 "flashcard_status", "mcq_status", "processing_error",
                 "updated_at"} |->
            CASE f \in {"summary", "flashcards", "mcqs"} -> Field(generated_data, f, "")
              [] f = "processing_error" -> None
              [] f = "updated_at" -> "now"
              [] OTHER -> "COMPLETED"]

\* The $set of an update that writes the artifact's status fields with the
\* content and, on an error, only the status it found failed first.
UpdateSetStatusByStatus(generated_data) ==
    IF "error" \in DOMAIN generated_data
    THEN [f \in {"summary_status", "processing_error", "updated_at"} |->
            CASE f = "processing_error" -> generated_data["error"]
              [] f = "updated_at" -> "now"
              [] OTHER -> "FAILED"]
    ELSE UpdateSetCompleted(generated_data)

\* The $set document of update_document_generated_content.
UpdateSet(generated_data) ==
    IF "error" \in DOMAIN generated_data
    THEN [f \in {"summary_status", "flashcard_status", "mcq_status",
                 "processing_error", "updated_at"} |->
            CASE f = "processing_error" -> generated_data["error"]
              [] f = "updated_at" -> "now"
              [] OTHER -> "FAILED"]
    ELSE [f \in {"summary", "flashcards", "mcqs", "summary_status",
                 "flashcard_status", "mcq_status", "updated_at"} |->
            CASE f \in {"summary", "flashcards", "mcqs"} -> Field(generated_data, f, "")
              [] f = "updated_at" -> "now"
              [] OTHER -> "COMPLETED"]

\* collection.update_one(query, {"$set": set})
update_one(coll, document_id, user_id, set) ==
    IF ~find_one(coll, document_id, user_id).found THEN coll
    ELSE [coll EXCEPT ![document_id] =
            [f \in DOMAIN @ \cup DOMAIN set |-> IF f \in DOMAIN set THEN set[f] ELSE @[f]]]

\* The collection after the application deleted a document.
Deleted(coll, document_id) == [d \in DOMAIN coll \ {document_id} |-> coll[d]]

AlwaysMatched(found) == TRUE

\* if result.matched_count > 0: return True, else return False
MatchedCount(found) == found

\* update_document_generated_content: [ok, coll]
update_document_generated_content(coll, document_id, user_id, generated_data, env) ==
    IF env.upd = "error" THEN [ok |-> FALSE, coll |-> coll]
    ELSE LET now == IF env.upd = "gone" THEN Deleted(coll, document_id) ELSE coll
         IN [ok |-> MatchedCount(find_one(now, document_id, user_id).found),
             coll |-> update_one(now, document_id, user_id, UpdateSet(generated_data))]

(***************************************************************************)
(* generate_stuff (src/utils/gen_stuff.py) as the pipelines see it: a      *)
(* validated artifact or a dict with the key "error".                      *)
(***************************************************************************)
generate_stuff(content, env) ==
    IF env.gen = "artifact"
    THEN [k \in {"summary", "flashcards", "mcqs"} |->
            CASE k = "summary" -> "summary-1" [] k = "flashcards" -> "flashcards-1"
              [] OTHER -> "mcqs-1"]
    ELSE [k \in {"error", "raw_response"} |->
            IF k = "error" THEN "Failed to generate valid JSON after 3 attempts"
            ELSE "raw"]

\* A call of a collaborator, as recorded in the trace of a pipeline.
NoSet == [f \in {} |-> ""]

Call(op, args, ret) == [op |-> op, args |-> args, ret |-> ret, set |-> NoSet]

\* self.collection.update_one(query, update): the $set it carries and
\* whether a record matched ("error": the call raised, caught in the method).
UpdateCall(document_id, user_id, set, ret) ==
    [op |-> "update_one", args |-> <<document_id, user_id>>, ret |-> ret, set |-> set]

(***************************************************************************)
(* The file resolver (src/utils/s3_client.py).  A URL is a string; its     *)
(* text is handled as the sequence of its "/"-separated parts, the origin  *)
(* first.  A temporary file is named after the strategy that created it.   *)
(***************************************************************************)
VARIABLES
    s3_client,        \* the S3Client singleton: endpoint_url, bucket_name, public_url
    temp_files        \* the temporary files on disk, each with the call that made it

EndpointUrl == <<"https://r2.example">>
BucketName == "mindmate"
PublicUrl == <<"https://pub.example">>
NoUrl == <<>>

UrlInBucket == "https://r2.example/mindmate/docs/a.pdf"
UrlAtEndpoint == "https://r2.example/docs/b.pdf"
UrlElsewhere == "https://cdn.example/docs/c.pdf"

UrlParts(file_url) ==
    CASE file_url = UrlInBucket -> <<"https://r2.example", "mindmate", "docs", "a.pdf">>
      [] file_url = UrlAtEndpoint -> <<"https://r2.example", "docs", "b.pdf">>
      [] file_url = UrlElsewhere -> <<"https://cdn.example", "docs", "c.pdf">>
      [] OTHER -> <<file_url>>

\* file_url.startswith(self.full_endpoint_url)
StartsWith(parts, prefix) ==
    Len(parts) >= Len(prefix) /\ SubSeq(parts, 1, Len(prefix)) = prefix

\* extract_s3_key_from_url: the key, or NoUrl for None.
extract_s3_key_from_url(client, file_url) ==
    LET parts == UrlParts(file_url)
    IN IF StartsWith(parts, client.endpoint_url)
       THEN LET s3_key == SubSeq(parts, Len(client.endpoint_url) + 1, Len(parts))
            IN IF Len(s3_key) > 1 /\ s3_key[1] = client.bucket_name
               THEN s3_key
               ELSE <<client.bucket_name>> \o s3_key
       ELSE NoUrl

\* What a strategy leaves: the path it returns (None on failure) and the
\* temporary files it leaves on disk.
Fetched(path, files) == [path |-> path, files |-> files]

\* download_file_from_s3: the temporary file is created before
\* client.download_file and no except branch removes it.
LeftOnFailure(name) == {name}

download_file_from_s3(s3_key, outcome) ==
    IF outcome = "ok" THEN Fetched("tmp-s3", {"tmp-s3"})
    ELSE Fetched(None, LeftOnFailure("tmp-s3"))

\* _download_file_via_http: both except branches unlink the temporary file.
download_file_via_http(name, url, outcome) ==
    IF outcome = "ok" THEN Fetched(name, {name})
    ELSE Fetched(None, {})

KeyOnly(client, s3_key) == s3_key # NoUrl

\* if self.public_url and s3_key
TryAlternative(client, s3_key) == client.public_url # NoUrl /\ s3_key # NoUrl

NeverSucceeded(path) == FALSE

\* if temp_file_path: return temp_file_path
Succeeded(path) == path # None

\* S3Client.download_file_from_url: [path, files, calls], calls being the
\* strategies attempted, in order.
download_file_from_url(client, file_url, env) ==
    LET s3_key == extract_s3_key_from_url(client, file_url)
        s3 == IF s3_key # NoUrl THEN download_file_from_s3(s3_key, env.s3)
              ELSE Fetched(None, {})
        s3_calls == IF s3_key # NoUrl
                    THEN <<Call("download_file_from_s3", s3_key, s3.path)>>
                    ELSE <<>>
        http == download_file_via_http("tmp-http", UrlParts(file_url), env.http)
        http_calls == s3_calls \o <<Call("_download_file_via_http", UrlParts(file_url), http.path)>>
        alternative_url == client.public_url \o s3_key
        alt == download_file_via_http("tmp-alt", alternative_url, env.alt)
    IN IF Succeeded(s3.path)
       THEN [path |-> s3.path, files |-> s3.files, calls |-> s3_calls]
       ELSE IF Succeeded(http.path)
       THEN [path |-> http.path, files |-> s3.files \cup http.files, calls |-> http_calls]
       ELSE IF TryAlternative(client, s3_key)
       THEN [path |-> alt.path, files |-> s3.files \cup http.files \cup alt.files,
             calls |-> http_calls \o <<Call("_download_file_via_http", alternative_url, alt.path)>>]
       ELSE [path |-> None, files |-> s3.files \cup http.files, calls |-> http_calls]

NoCleanup(files, file_path) == files

\* cleanup_temp_file: os.unlink(file_path) when the file exists.
cleanup_temp_file(files, file_path) == files \ {file_path}

(***************************************************************************)
(* The four pipelines (src/worker.py).  Each yields what the call does:    *)
(* ret = "return" with the status of the dict it returns, or ret = "raise" *)
(* when an exception leaves it; calls is the trace of collaborator calls   *)
(* it made, coll the collection afterwards.                                *)
(***************************************************************************)
Returned(status, error, calls, coll) ==
    [ret |-> "return", status |-> status, error |-> error, calls |-> calls, coll |-> coll,
     files |-> {}]

Raised(calls, coll) ==
    [ret |-> "raise", status |-> Unbound, error |-> "exception", calls |-> calls, coll |-> coll,
     files |-> {}]

\* The same outcome of a pipeline that leaves the temporary files on disk.
Leaving(files, r) == [r EXCEPT !.files = files]

MissingBoth(document_id, user_id) == ~Truthy(document_id) /\ ~Truthy(user_id)

\* if not document_id or not user_id
MissingIds(document_id, user_id) == ~Truthy(document_id) \/ ~Truthy(user_id)

\* "v=" in video_link, the condition for video_link.split("v=")[1] to exist
HasVideoParam(video_link) == video_link = VideoLink

\* get_transcript: [raised, text]
get_transcript(video_link, env) ==
    IF ~HasVideoParam(video_link) THEN [raised |-> TRUE, text |-> ""]
    ELSE [raised |-> FALSE, text |-> IF env.io = "ok" THEN env.text ELSE ""]

\* The shared tail of the pipelines: generate_stuff, update_document_content,
\* and the result dict.
GenerateAndPersist(document_id, user_id, text, calls, coll, env) ==
    LET result_data == generate_stuff(text, env)
        upd == update_document_generated_content(coll, document_id, user_id, result_data, env)
        trace == calls \o
                 <<Call("generate_stuff", <<text>>, env.gen),
                   Call("update_document_content", <<document_id, user_id>>,
                        IF upd.ok THEN "True" ELSE "False"),
                   UpdateCall(document_id, user_id, UpdateSet(result_data),
                              IF env.upd = "error" THEN "error"
                              ELSE IF env.upd = "gone" THEN "unmatched" ELSE "matched")>>
    IN IF ~upd.ok
       THEN Returned("failed", "Failed to update document in MongoDB", trace, upd.coll)
       ELSE Returned("completed", "", trace, upd.coll)

process_text_task(task_data, coll, env) ==
    IF task_data.kind # "dict" THEN Raised(<<>>, coll)
    ELSE
    LET document_id == Get(task_data, "documentId")
        user_id == Get(task_data, "userId")
        read == <<Call("fetch_document_content", <<document_id, user_id>>,
                       IF env.read = "down" THEN "raise"
                       ELSE get_document_content(coll, document_id, user_id, env))>>
    IN IF MissingIds(document_id, user_id)
       THEN Returned("failed", "Missing documentId or userId", <<>>, coll)
       ELSE IF env.read = "down" THEN Raised(read, coll)
       ELSE LET content == get_document_content(coll, document_id, user_id, env)
            IN IF ~Truthy(content)
               THEN Returned("failed", "Document not found or empty content", read, coll)
               ELSE GenerateAndPersist(document_id, user_id, content, read, coll, env)

process_youtube_video(task_data, coll, env) ==
    IF task_data.kind # "dict" THEN Raised(<<>>, coll)
    ELSE
    LET document_id == Get(task_data, "documentId")
        user_id == Get(task_data, "userId")
        read == <<Call("fetch_document_content", <<document_id, user_id>>,
                       IF env.read = "down" THEN "raise"
                       ELSE get_document_content(coll, document_id, user_id, env))>>
    IN IF MissingIds(document_id, user_id)
       THEN Returned("failed", "Missing documentId or userId", <<>>, coll)
       ELSE IF env.read = "down" THEN Raised(read, coll)
       ELSE LET content == get_document_content(coll, document_id, user_id, env)
            IN IF ~Truthy(content)
               THEN Returned("failed", "Document not found or empty content", read, coll)
               ELSE LET t == get_transcript(content, env)
                        calls == read \o <<Call("get_transcript", <<content>>,
                                                IF t.raised THEN "raise" ELSE t.text)>>
                    IN IF t.raised THEN Raised(calls, coll)
                       ELSE GenerateAndPersist(document_id, user_id, t.text, calls, coll, env)

process_website_task(task_data, coll, env) ==
    IF task_data.kind # "dict" THEN Raised(<<>>, coll)
    ELSE
    LET document_id == Get(task_data, "documentId")
        user_id == Get(task_data, "userId")
        read == <<Call("fetch_document_content", <<document_id, user_id>>,
                       IF env.read = "down" THEN "raise"
                       ELSE get_document_content(coll, document_id, user_id, env))>>
    IN IF MissingIds(document_id, user_id)
       THEN Returned("failed", "Missing documentId or userId", <<>>, coll)
       ELSE IF env.read = "down" THEN Raised(read, coll)
       ELSE LET content == get_document_content(coll, document_id, user_id, env)
            IN IF ~Truthy(content)
               THEN Returned("failed", "Document not found or empty content", read, coll)
               ELSE LET scraped_content == IF env.io = "ok" THEN env.text ELSE ""
                        calls == read \o <<Call("scrape_website", <<HARDCODED_URL>>,
                                                IF env.io = "raise" THEN "raise"
                                                ELSE scraped_content)>>
                    IN IF env.io = "raise" THEN Raised(calls, coll)
                       ELSE GenerateAndPersist(document_id, user_id, scraped_content,
                                               calls, coll, env)

process_pdf_task(task_data, coll, env) ==
    IF task_data.kind # "dict" THEN Raised(<<>>, coll)
    ELSE
    LET document_id == Get(task_data, "documentId")
        user_id == Get(task_data, "userId")
        read == <<Call("fetch_document_file_url", <<document_id, user_id>>,
                       IF env.read = "down" THEN "raise"
                       ELSE get_document_file_url(coll, document_id, user_id, env))>>
    IN IF MissingIds(document_id, user_id)
       THEN Returned("failed", "Missing documentId or userId", <<>>, coll)
       ELSE IF env.read = "down" THEN Raised(read, coll)
       ELSE LET file_url == get_document_file_url(coll, document_id, user_id, env)
            IN IF ~Truthy(file_url)
               THEN Returned("failed", "File URL not found in document", read, coll)
               ELSE IF env.io = "raise"
               THEN Raised(read \o <<Call("download_file_from_url", <<file_url>>, "raise")>>, coll)
               ELSE
               LET fetched == download_file_from_url(s3_client, file_url, env)
                   temp_pdf_path == fetched.path
                   download == read \o <<Call("download_file_from_url", <<file_url>>, temp_pdf_path)>>
                                    \o fetched.calls
               IN IF ~Truthy(temp_pdf_path)
                  THEN Leaving(fetched.files,
                          Returned("failed", "Failed to download PDF file",
                                   download \o <<Call("test_s3_bucket_access", <<>>, "")>>, coll))
                  ELSE LET content == env.extract
                           calls == download \o
                                    <<Call("process_pdf", <<temp_pdf_path>>, content),
                                      Call("cleanup_temp_file", <<temp_pdf_path>>, "")>>
                           left == cleanup_temp_file(fetched.files, temp_pdf_path)
                       IN IF content = "raise" THEN Leaving(left, Raised(calls, coll))
                          ELSE IF ~Truthy(content)
                          THEN Leaving(left,
                                  Returned("failed", "Document not found or empty content",
                                           calls, coll))
                          ELSE Leaving(left,
                                  GenerateAndPersist(document_id, user_id, content, calls, coll, env))

RouteElseText(queue_name, task_data, coll, env) == process_text_task(task_data, coll, env)

RouteElseRaises(queue_name, task_data, coll, env) ==
    CASE queue_name = "process-pdf" -> process_pdf_task(task_data, coll, env)
      [] queue_name = "process-text" -> process_text_task(task_data, coll, env)
      [] queue_name = "process-ytvideo" -> process_youtube_video(task_data, coll, env)
      [] queue_name = "process-website" -> process_website_task(task_data, coll, env)
      [] OTHER -> Raised(<<>>, coll)

\* The if/elif chain of process_task: the pipeline of a queue name; for any
\* other name the else branch only prints, and result stays unassigned.
Route(queue_name, task_data, coll, env) ==
    CASE queue_name = "process-pdf" -> process_pdf_task(task_data, coll, env)
      [] queue_name = "process-text" -> process_text_task(task_data, coll, env)
      [] queue_name = "process-ytvideo" -> process_youtube_video(task_data, coll, env)
      [] queue_name = "process-website" -> process_website_task(task_data, coll, env)
      [] OTHER -> Returned(Unbound, "", <<>>, coll)


(***************************************************************************)
(* The worker process.                                                     *)
(***************************************************************************)
VARIABLES
    redis,            \* the four Redis lists; the head is what brpop returns next
    popped,           \* per list, how many elements brpop has returned
    poller,           \* per queue, where its poll_queue thread stands
    work_queue,       \* the executor's queue of submitted, not yet started calls
    running,          \* the process_task calls in progress on pool threads
    finished,         \* the process_task calls that have ended
    processed_tasks,  \* the module-level set of task hashes
    processing_lock,  \* the ids of the calls holding processing_lock
    collection,       \* the documentmodels collection
    witnessed         \* history: the calls that were in progress while the
                      \* pipeline of another call with the same hash ended

VARIABLES
    gen,              \* one call of generate_stuff, followed attempt by attempt
    main              \* the main thread in the status loop of start_worker

\* The main thread in time.sleep(10), nothing printed yet.
Sleeping == [pc |-> "sleep", status |-> <<>>]

\* generate_stuff before it is called.
NotCalled == [pc |-> "idle", attempt |-> 0, retry |-> 0, solicited |-> 0,
              responses |-> <<>>, result |-> "None"]

vars == <<redis, popped, poller, work_queue, running, finished,
          processed_tasks, processing_lock, collection, witnessed, s3_client, temp_files, gen, main>>

\* Payload texts.
J1 == ObjText(<<Pair("documentId", "d1"), Pair("userId", "u1")>>)
J1r == ObjText(<<Pair("userId", "u1"), Pair("documentId", "d1")>>)
J1x == ObjText(<<Pair("documentId", "d1"), Pair("userId", "u1"), Pair("id", "t-1")>>)
JnoUser == ObjText(<<Pair("documentId", "d1")>>)
JemptyDoc == ObjText(<<Pair("documentId", ""), Pair("userId", "u1")>>)
J2 == ObjText(<<Pair("documentId", "d2"), Pair("userId", "u2")>>)
Jother == ObjText(<<Pair("documentId", "d2"), Pair("userId", "u1")>>)

Texts == {J1, J1r, J1x, JnoUser, JemptyDoc, J2, Jother, ArrayText, BadText}

Elem(q, text) == [queue |-> q, text |-> text]

\* The elements a producer may have pushed, per specification.
Kinds == {Elem("process-text", J1), Elem("process-text", J1r),
          Elem("process-ytvideo", J1), Elem("process-pdf", J2),
          Elem("process-text", BadText)}
PoolKinds == {Elem("process-text", ArrayText), Elem("process-ytvideo", JnoUser)}
\* One payload of each kind a pipeline tells apart: a document with content
\* and file, another owner's document, a missing id, an empty id, a list.
PipeTexts == {J1, J2, Jother, JnoUser, JemptyDoc, ArrayText}
PipeKinds == {Elem(q, t) : q \in QueueNames, t \in PipeTexts}

\* The documents: d1 of user u1, with one of three contents; d2 of user u2.
Doc(user, content, file_url) ==
    [f \in {"userId", "content", "fileUrl"} |->
        CASE f = "userId" -> user [] f = "content" -> content [] OTHER -> file_url]

Collections ==
    {[d \in DocIds |-> IF d = "d1" THEN d1 ELSE Doc("u2", PageLink, UrlInBucket)] :
        d1 \in {Doc("u1", Notes, UrlAtEndpoint),
                Doc("u1", VideoLink, UrlElsewhere),
                Doc("u1", "", "")}}

\* The S3Client built from the environment: R2_PUBLIC_URL set or not.
Client(public_url) ==
    [endpoint_url |-> EndpointUrl, bucket_name |-> BucketName, public_url |-> public_url]

Clients == {Client(PublicUrl), Client(NoUrl)}

Idle == [pc |-> "brpop", text |-> BadText]

\* The list of queue q when the producers pushed the elements of s in order.
ListOf(s, q) ==
    LET sel == SelectSeq(s, LAMBDA k : k.queue = q)
    IN [i \in 1..Len(sel) |-> sel[i].text]

InitFor(kinds, n, colls, clients) ==
    /\ \E s \in UNION {[1..k -> kinds] : k \in 0..n} :
          redis = [q \in QueueNames |-> ListOf(s, q)]
    /\ popped = [q \in QueueNames |-> 0]
    /\ poller = [q \in QueueNames |-> Idle]
    /\ work_queue = <<>>
    /\ running = {}
    /\ finished = {}
    /\ processed_tasks = {}
    /\ processing_lock = {}
    /\ collection \in colls
    /\ witnessed = {}
    /\ s3_client \in clients
    /\ temp_files = {}
    /\ gen = NotCalled
    /\ main = Sleeping

Init == InitFor(Kinds, MaxTasks, Collections, {Client(PublicUrl)})


(***************************************************************************)
(* poll_queue: one thread per queue.                                       *)
(***************************************************************************)
\* redis_client.brpop(queue_name) returns an element.
Pop(q) ==
    /\ poller[q].pc = "brpop"
    /\ redis[q] # <<>>
    /\ poller' = [poller EXCEPT ![q] = [pc |-> "loads", text |-> Head(redis[q])]]
    /\ redis' = [redis EXCEPT ![q] = Tail(@)]
    /\ popped' = [popped EXCEPT ![q] = @ + 1]
    /\ UNCHANGED <<work_queue, running, finished, processed_tasks, processing_lock,
                   collection, witnessed, s3_client, temp_files, gen, main>>

SubmitBlocks == Cardinality(running) < max_workers

\* executor.submit(process_task, queue_name, task_data) on a
\* ThreadPoolExecutor: the call is put on the executor's unbounded queue and
\* submit returns; it does not wait for a free thread.
SubmitReturns == TRUE

\* The work item submit makes of a parsed task.
WorkItem(q, task_data) == [id |-> <<q, popped[q]>>, queue_name |-> q, task_data |-> task_data]

EnqueuedWhenIdle(wq, w) == IF wq = <<>> THEN Append(wq, w) ELSE wq
Pushed(wq, w) == <<w>> \o wq

\* self._work_queue.put(w) of executor.submit: the queue is unbounded and
\* first in, first out.
Enqueued(wq, w) == Append(wq, w)

\* json.loads of the popped element, then executor.submit; a JSONDecodeError
\* is printed and the element dropped.
Submit(q) ==
    /\ poller[q].pc = "loads"
    /\ LET task_data == json_loads(poller[q].text)
       IN IF task_data.kind = "JSONDecodeError"
          THEN UNCHANGED work_queue
          ELSE /\ SubmitReturns
               /\ work_queue' = Enqueued(work_queue, WorkItem(q, task_data))
    /\ poller' = [poller EXCEPT ![q] = Idle]
    /\ UNCHANGED <<redis, popped, running, finished, processed_tasks, processing_lock,
                   collection, witnessed, s3_client, temp_files, gen, main>>

(***************************************************************************)
(* The thread pool and process_task.                                       *)
(***************************************************************************)
ScopedByQueue(queue_name, task_data) == <<Pair("queue", queue_name)>> \o TaskHash(task_data)

\* process_task(queue_name, task_data) computes task_hash from task_data
\* alone.
Fingerprint(queue_name, task_data) == TaskHash(task_data)

WorkerAlwaysFree == TRUE

\* ThreadPoolExecutor(max_workers=WORKER_CONFIG['max_workers']): a call
\* starts only on one of max_workers threads.
WorkerFree == Cardinality(running) < max_workers

\* A pool thread takes the oldest submitted call and enters process_task,
\* which first computes task_hash.
WorkerPickup ==
    /\ work_queue # <<>>
    /\ WorkerFree
    /\ LET w == Head(work_queue)
           e == [id |-> w.id, queue_name |-> w.queue_name, task_data |-> w.task_data,
                 task_hash |-> Fingerprint(w.queue_name, w.task_data), pc |-> "start",
                 raised |-> FALSE, status |-> Unbound, calls |-> <<>>]
       IN running' = running \cup {e}
    /\ work_queue' = Tail(work_queue)
    /\ UNCHANGED <<redis, popped, poller, finished, processed_tasks, processing_lock,
                   collection, witnessed, s3_client, temp_files, gen, main>>

LockNeverHeld == TRUE

\* threading.Lock: acquired only when no thread holds it.
LockFree == processing_lock = {}

At(e, pc) == [e EXCEPT !.pc = pc]

\* with processing_lock: (entering the block of lines 346-350)
AcquireLock(e) ==
    /\ e.pc = "start"
    /\ LockFree
    /\ processing_lock' = processing_lock \cup {e.id}
    /\ running' = (running \ {e}) \cup {At(e, "test")}
    /\ UNCHANGED <<redis, popped, poller, work_queue, finished, processed_tasks,
                   collection, witnessed, s3_client, temp_files, gen, main>>

NeverProcessed(task_hash) == FALSE

\* if task_hash in processed_tasks
AlreadyProcessed(task_hash) == task_hash \in processed_tasks

\* The membership test; when the hash is there, process_task returns at
\* once (leaving the with block releases the lock).
TestProcessed(e) ==
    /\ e.pc = "test"
    /\ IF AlreadyProcessed(e.task_hash)
       THEN /\ running' = running \ {e}
            /\ finished' = finished \cup {At(e, "skipped")}
            /\ processing_lock' = processing_lock \ {e.id}
       ELSE /\ running' = (running \ {e}) \cup {At(e, "add")}
            /\ UNCHANGED <<finished, processing_lock>>
    /\ UNCHANGED <<redis, popped, poller, work_queue, processed_tasks, collection, witnessed, s3_client, temp_files, gen, main>>

HeldOn(lock, id) == lock

\* The with block of lines 346-350 ends before the routing starts.
EndWith(lock, id) == lock \ {id}

\* processed_tasks.add(task_hash), and the end of the with block.
AddProcessed(e) ==
    /\ e.pc = "add"
    /\ processed_tasks' = processed_tasks \cup {e.task_hash}
    /\ processing_lock' = EndWith(processing_lock, e.id)
    /\ running' = (running \ {e}) \cup {At(e, "pipeline")}
    /\ UNCHANGED <<redis, popped, poller, work_queue, finished, collection, witnessed, s3_client, temp_files, gen, main>>

CaughtAlways(r) == TRUE
CaughtOrFailed(r) == r.ret = "raise" \/ r.status = "failed"
CaughtNever(r) == FALSE

\* except Exception: the handler runs when an exception left the pipeline.
Caught(r) == r.ret = "raise"

\* The routed pipeline runs to its end: it returns its result dict, or an
\* exception leaves it and the except clause of process_task takes over.
\* What the routed pipeline may do, over all the environment may decide.
\* The generator's answer and the outcome of update_one are drawn only for
\* the runs that reach generate_stuff; the others do not depend on them.
Outcomes(queue_name, task_data, coll) ==
    UNION {LET r == Route(queue_name, task_data, coll, env)
           IN IF \E i \in 1..Len(r.calls) : r.calls[i].op = "generate_stuff"
              THEN {Route(queue_name, task_data, coll, [env EXCEPT !.gen = g, !.upd = u]) :
                       g \in {"artifact", "error"}, u \in {"ok", "error", "gone"}}
              ELSE {r} :
           env \in {x \in EnvsOf(queue_name) : x.gen = "artifact" /\ x.upd = "ok"}}

RunPipeline(e) ==
    /\ e.pc = "pipeline"
    /\ \E r \in Outcomes(e.queue_name, e.task_data, collection) :
         LET done == [e EXCEPT !.raised = (r.ret = "raise"), !.status = r.status,
                               !.calls = r.calls]
         IN /\ collection' = r.coll
            /\ temp_files' = temp_files \cup {<<e.id, name>> : name \in r.files}
            /\ IF Caught(r)
               THEN /\ running' = (running \ {e}) \cup {At(done, "except")}
                    /\ UNCHANGED finished
               ELSE /\ running' = running \ {e}
                    /\ finished' = finished \cup {At(done, "returned")}
    /\ witnessed' = witnessed \cup
                       {x.id : x \in {y \in running : y # e /\ y.task_hash = e.task_hash}}
    /\ UNCHANGED <<redis, popped, poller, work_queue, processed_tasks, processing_lock,
                   s3_client, gen, main>>

\* with processing_lock: (entering the block of lines 368-369)
ExceptLock(e) ==
    /\ e.pc = "except"
    /\ LockFree
    /\ processing_lock' = processing_lock \cup {e.id}
    /\ running' = (running \ {e}) \cup {At(e, "discard")}
    /\ UNCHANGED <<redis, popped, poller, work_queue, finished, processed_tasks,
                   collection, witnessed, s3_client, temp_files, gen, main>>

DiscardedNothing(task_hash) == processed_tasks
DiscardedAll(task_hash) == {}

\* processed_tasks.discard(task_hash)
Discarded(task_hash) == processed_tasks \ {task_hash}

\* The discard, the end of the with block, and the end of process_task.
DiscardProcessed(e) ==
    /\ e.pc = "discard"
    /\ processed_tasks' = Discarded(e.task_hash)
    /\ processing_lock' = processing_lock \ {e.id}
    /\ running' = running \ {e}
    /\ finished' = finished \cup {At(e, "returned")}
    /\ UNCHANGED <<redis, popped, poller, work_queue, collection, witnessed, s3_client, temp_files, gen, main>>

Next ==
    \/ \E q \in QueueNames : Pop(q)
    \/ \E q \in QueueNames : Submit(q)
    \/ WorkerPickup
    \/ \E e \in running : AcquireLock(e)
    \/ \E e \in running : TestProcessed(e)
    \/ \E e \in running : AddProcessed(e)
    \/ \E e \in running : RunPipeline(e)
    \/ \E e \in running : ExceptLock(e)
    \/ \E e \in running : DiscardProcessed(e)

Spec == Init /\ [][Next]_vars

InitPool == InitFor(PoolKinds, MaxPoolTasks, {CHOOSE c \in Collections : c["d1"]["content"] = Notes},
                    {Client(PublicUrl)})
SpecPool == InitPool /\ [][Next]_vars

InitPipe == InitFor(PipeKinds, MaxPipeTasks, Collections, Clients)
SpecPipe == InitPipe /\ [][Next]_vars

(***************************************************************************)
(* The other paths of one iteration of poll_queue (brpop times out, brpop  *)
(* raises, the popped bytes do not decode), and the specification with     *)
(* the fairness the threads of the process have.                           *)
(***************************************************************************)
\* An element whose bytes are not UTF-8: task_json.decode('utf-8') raises
\* UnicodeDecodeError, which is no JSONDecodeError.
BadBytes == [kind |-> "undecodable", pairs |-> <<>>]

At_(pc) == [pc |-> pc, text |-> BadText]

\* brpop(queue_name, timeout=poll_interval) returns None: the list stayed
\* empty for poll_interval; `if result:` is false.
PopTimeout(q) ==
    /\ poller[q].pc = "brpop"
    /\ redis[q] = <<>>
    /\ poller' = [poller EXCEPT ![q] = At_("timeout")]
    /\ UNCHANGED <<redis, popped, work_queue, running, finished, processed_tasks,
                   processing_lock, collection, witnessed, s3_client, temp_files, gen, main>>

\* brpop raises redis.RedisError: printed, then time.sleep(5).
RedisErrorRaised(q) ==
    /\ poller[q].pc = "brpop"
    /\ poller' = [poller EXCEPT ![q] = At_("sleep(5)")]
    /\ UNCHANGED <<redis, popped, work_queue, running, finished, processed_tasks,
                   processing_lock, collection, witnessed, s3_client, temp_files, gen, main>>

\* brpop raises another Exception: printed, then time.sleep(1).
UnexpectedRaised(q) ==
    /\ poller[q].pc = "brpop"
    /\ poller' = [poller EXCEPT ![q] = At_("sleep(1)")]
    /\ UNCHANGED <<redis, popped, work_queue, running, finished, processed_tasks,
                   processing_lock, collection, witnessed, s3_client, temp_files, gen, main>>

\* The popped bytes decode: json.loads and executor.submit follow.
SubmitDecoded(q) == poller[q].text.kind # "undecodable" /\ Submit(q)

\* The popped bytes do not decode: the inner `except Exception` prints, and
\* the element is dropped.
DecodeFails(q) ==
    /\ poller[q].pc = "loads"
    /\ poller[q].text.kind = "undecodable"
    /\ poller' = [poller EXCEPT ![q] = Idle]
    /\ UNCHANGED <<redis, popped, work_queue, running, finished, processed_tasks,
                   processing_lock, collection, witnessed, s3_client, temp_files, gen, main>>

HandledRedisOnly(pc) == pc \in {"timeout", "sleep(5)"}

\* The places of an iteration from which control goes back to `while True`:
\* after a None result, and at the end of either except clause of the
\* outer try.
Handled(pc) == pc \in {"timeout", "sleep(5)", "sleep(1)"}

\* The end of the iteration: the sleep is over, the loop goes round.
LoopAgain(q) ==
    /\ Handled(poller[q].pc)
    /\ poller' = [poller EXCEPT ![q] = Idle]
    /\ UNCHANGED <<redis, popped, work_queue, running, finished, processed_tasks,
                   processing_lock, collection, witnessed, s3_client, temp_files, gen, main>>

\* What the thread of poll_queue(q) does by itself once brpop has returned or
\* raised, and what the threads of the pool do.
PollerStep(q) == SubmitDecoded(q) \/ DecodeFails(q) \/ LoopAgain(q)

PoolStep ==
    \/ WorkerPickup
    \/ \E e \in running : AcquireLock(e)
    \/ \E e \in running : TestProcessed(e)
    \/ \E e \in running : AddProcessed(e)
    \/ \E e \in running : RunPipeline(e)
    \/ \E e \in running : ExceptLock(e)
    \/ \E e \in running : DiscardProcessed(e)

NextPoll ==
    \/ \E q \in QueueNames : Pop(q)
    \/ \E q \in QueueNames : PopTimeout(q)
    \/ \E q \in QueueNames : RedisErrorRaised(q)
    \/ \E q \in QueueNames : UnexpectedRaised(q)
    \/ \E q \in QueueNames : PollerStep(q)
    \/ PoolStep

\* Each poller thread and the pool's threads are scheduled: a thread that
\* can take its next step takes it.  What brpop returns or raises, and when,
\* is up to Redis: no fairness.  The pipelines are taken to terminate.
Fairness == (\A q \in QueueNames : WF_vars(PollerStep(q))) /\ WF_vars(PoolStep)

\* The pollers with all the paths of an iteration; the elements are a list,
\* a text that is not JSON, and bytes that are not UTF-8.
PollKinds == {Elem("process-text", ArrayText), Elem("process-text", BadText),
              Elem("process-text", BadBytes)}

InitPoll == InitFor(PollKinds, MaxPollTasks,
                    {CHOOSE c \in Collections : c["d1"]["content"] = Notes},
                    {Client(PublicUrl)})

SpecPoll == InitPoll /\ [][NextPoll]_vars /\ Fairness

\* The worker with Redis answering: elements of two queues, among them the
\* same payload twice and on both queues, and a payload whose pipeline
\* raises (the content of d1 is no video link).
LiveKinds == {Elem("process-text", J1), Elem("process-text", BadText),
              Elem("process-ytvideo", J1)}

InitLive == InitFor(LiveKinds, MaxLiveTasks,
                    {CHOOSE c \in Collections : c["d1"]["content"] = Notes},
                    {Client(PublicUrl)})

\* The threads are scheduled: while some poller or pool thread can take its
\* next step, one of them takes a step.  (With finitely many elements this
\* is all the progress the threads need.)  The pipelines are taken to
\* terminate; Redis is not asked to deliver.
ThreadStep == (\E q \in QueueNames : Submit(q)) \/ PoolStep

FairnessLive == WF_vars(ThreadStep)

SpecLive == InitLive /\ [][Next]_vars /\ FairnessLive


\* The worker with tasks that name the same document and differ in their
\* fingerprints (one carries an id), on two queues.
StoreKinds == {Elem("process-text", J1), Elem("process-text", J1x),
               Elem("process-website", J1x)}

InitStore == InitFor(StoreKinds, MaxStoreTasks,
                     {CHOOSE c \in Collections : c["d1"]["content"] = Notes},
                     {Client(PublicUrl)})

SpecStore == InitStore /\ [][Next]_vars

(***************************************************************************)
(* process_task called by a caller other than poll_queue, with any queue   *)
(* name: the calls are on the executor's queue at the start.               *)
(***************************************************************************)
DirectKinds == {Elem("process-audio", J1), Elem("process-audio", ArrayText),
                Elem("process-text", J1), Elem("process-text", ArrayText)}

InitDirect ==
    /\ \E s \in UNION {[1..k -> DirectKinds] : k \in 0..MaxDirectCalls} :
          work_queue = [i \in 1..Len(s) |->
                           [id |-> <<s[i].queue, i>>, queue_name |-> s[i].queue,
                            task_data |-> json_loads(s[i].text)]]
    /\ redis = [q \in QueueNames |-> <<>>]
    /\ popped = [q \in QueueNames |-> 0]
    /\ poller = [q \in QueueNames |-> Idle]
    /\ running = {}
    /\ finished = {}
    /\ processed_tasks = {}
    /\ processing_lock = {}
    /\ collection = (CHOOSE c \in Collections : c["d1"]["content"] = Notes)
    /\ witnessed = {}
    /\ s3_client = Client(PublicUrl)
    /\ temp_files = {}
    /\ gen = NotCalled
    /\ main = Sleeping

SpecDirect == InitDirect /\ [][PoolStep]_vars

(***************************************************************************)
(* A pipeline stage that never returns.  WORKER_CONFIG['task_timeout'] is  *)
(* printed at start-up and read nowhere else: process_task waits for the   *)
(* routed pipeline without a limit.                                        *)
(***************************************************************************)
AbandonedAfterTimeout(e) == [e EXCEPT !.pc = "except", !.status = "hung"]

\* The call from the moment its stage hangs: it stays inside the pipeline.
Hung(e) == [e EXCEPT !.pc = "stuck", !.status = "hung"]

\* A collaborator call of the routed pipeline never comes back.
PipelineHangs(e) ==
    /\ e.pc = "pipeline"
    /\ running' = (running \ {e}) \cup {Hung(e)}
    /\ UNCHANGED <<redis, popped, poller, work_queue, finished, processed_tasks,
                   processing_lock, collection, witnessed, s3_client,
                   temp_files, gen, main>>

NextStuck == Next \/ \E e \in running : PipelineHangs(e)

StuckKinds == {Elem("process-text", J1), Elem("process-text", J1x),
               Elem("process-ytvideo", J1)}

InitStuck == InitFor(StuckKinds, MaxStuckTasks,
                     {CHOOSE c \in Collections : c["d1"]["content"] = Notes},
                     {Client(PublicUrl)})

SpecStuck == InitStuck /\ [][NextStuck]_vars

(***************************************************************************)
(* The main thread (start_worker, lines 441-446) and the module-level      *)
(* singletons the pipelines reach through get_mongo_connection.            *)
(***************************************************************************)
\* time.sleep(10) returns.
WakeUp ==
    /\ main.pc = "sleep"
    /\ main' = [main EXCEPT !.pc = "len"]
    /\ UNCHANGED <<redis, popped, poller, work_queue, running, finished,
                   processed_tasks, processing_lock, collection, witnessed,
                   s3_client, temp_files, gen>>

\* print(f"Worker status - Processed tasks: {len(processed_tasks)}"): the set
\* is read as it is, whoever holds processing_lock.
PrintStatus ==
    /\ main.pc = "len"
    /\ main' = [pc |-> "sleep", status |-> <<Cardinality(processed_tasks)>>]
    /\ UNCHANGED <<redis, popped, poller, work_queue, running, finished,
                   processed_tasks, processing_lock, collection, witnessed,
                   s3_client, temp_files, gen>>

StoreOps == {"fetch_document_content", "fetch_document_file_url",
             "update_document_content"}

\* _mongo_connection: None until the first pipeline calls one of the
\* module's convenience functions, the MongoDBConnection from then on.
mongo_connection ==
    IF \E e \in running \cup finished :
          \E i \in 1..Len(e.calls) : e.calls[i].op \in StoreOps
    THEN "MongoDBConnection" ELSE None

NextShared == Next \/ WakeUp \/ PrintStatus

SharedKinds == {Elem("process-text", J1), Elem("process-text", J1x),
                Elem("process-ytvideo", J1)}

InitShared == InitFor(SharedKinds, MaxSharedTasks,
                      {CHOOSE c \in Collections : c["d1"]["content"] = Notes},
                      {Client(PublicUrl)})

SpecShared == InitShared /\ [][NextShared]_vars

(***************************************************************************)
(* Shutdown.  KeyboardInterrupt ends the status loop; leaving the with     *)
(* block of the executor shuts the pool down, which from then on refuses   *)
(* new calls, while the daemon poll_queue threads go on.                   *)
(***************************************************************************)
Interrupted ==
    /\ main.pc \in {"sleep", "len"}
    /\ main' = [main EXCEPT !.pc = "shutdown"]
    /\ UNCHANGED <<redis, popped, poller, work_queue, running, finished,
                   processed_tasks, processing_lock, collection, witnessed,
                   s3_client, temp_files, gen>>

\* The iteration of poll_queue while the executor takes calls, and the
\* JSONDecodeError branch at any time.
SubmitOpen(q) ==
    /\ main.pc # "shutdown" \/ json_loads(poller[q].text).kind = "JSONDecodeError"
    /\ Submit(q)

PushedBack(list, text) == Append(list, text)

\* except Exception as e: print(...): the element is not put back.
Dropped(list, text) == list

\* executor.submit raises RuntimeError after shutdown; the inner try of
\* poll_queue catches it and the loop goes on.
SubmitRefused(q) ==
    /\ main.pc = "shutdown"
    /\ poller[q].pc = "loads"
    /\ json_loads(poller[q].text).kind # "JSONDecodeError"
    /\ redis' = [redis EXCEPT ![q] = Dropped(@, poller[q].text)]
    /\ poller' = [poller EXCEPT ![q] = Idle]
    /\ UNCHANGED <<popped, work_queue, running, finished, processed_tasks,
                   processing_lock, collection, witnessed, s3_client,
                   temp_files, gen, main>>

NextShutdown ==
    \/ \E q \in QueueNames : Pop(q)
    \/ \E q \in QueueNames : SubmitOpen(q)
    \/ \E q \in QueueNames : SubmitRefused(q)
    \/ PoolStep
    \/ Interrupted

SpecShutdown == InitLive /\ [][NextShutdown]_vars

(***************************************************************************)
(* generate_stuff followed attempt by attempt (utils/gen_stuff.py), over   *)
(* generate_response (utils/ai_model.py).                                  *)
(***************************************************************************)
max_attempts == 3
max_retries == 3

\* What model.generate_content answers: a text, wrapped in a ```json fence
\* or not, that holds a complete artifact, a dictionary that lacks a key,
\* something that is not JSON, or JSON nested too deep for the parser.
Bodies == {"artifact", "partial", "text", "deep"}
Responses == [fenced : BOOLEAN, body : Bodies]

\* The string generate_response returns after its last try failed.
ErrorAfterRetries == [fenced |-> FALSE, body |-> "text"]

\* response[7:-3] of a response that starts with ```json.
Unfenced(response) ==
    IF response.fenced THEN [response EXCEPT !.fenced = FALSE] ELSE response

\* json.loads(response.strip()): the parsed value or the exception raised.
Loads(response) ==
    IF response.fenced \/ response.body = "text" THEN "JSONDecodeError"
    ELSE IF response.body = "deep" THEN "RecursionError"
    ELSE response.body

Exceptions == {"JSONDecodeError", "RecursionError"}

\* if validate_response_structure(parsed_json), on the kind of the body.
StructureValid(parsed_json) == parsed_json = "artifact"

\* The except clauses of generate_stuff.
ExceptJsonOnly(exception) == exception = "JSONDecodeError"

Except(exception) == exception = "JSONDecodeError" \/ exception \in Exceptions

\* The error value of the last attempt, by the branch that returns it.
ErrorValue(parsed) ==
    IF parsed = "JSONDecodeError" THEN "JSON parsing failed after 3 attempts"
    ELSE IF parsed \in Exceptions THEN "Unexpected error after 3 attempts"
    ELSE "Failed to generate valid JSON after 3 attempts"

ErrorValues == {ErrorValue(p) : p \in Exceptions \cup Bodies}

SecondAttempt(attempt) == attempt = max_attempts - 2

\* attempt == max_attempts - 1
LastAttempt(attempt) == attempt = max_attempts - 1

RetriesUnlimited(retry) == TRUE

\* attempt < max_retries - 1
RetriesLeft(retry) == retry < max_retries - 1

GenUnchanged ==
    UNCHANGED <<redis, popped, poller, work_queue, running, finished,
                processed_tasks, processing_lock, collection, witnessed,
                s3_client, temp_files>>

\* The pipeline calls generate_stuff: the first pass of its loop begins.
CallGenerateStuff ==
    /\ gen.pc = "idle"
    /\ gen' = [gen EXCEPT !.pc = "generate_content"]
    /\ GenUnchanged /\ UNCHANGED main

\* model.generate_content answers and generate_response returns its text.
ContentReturned ==
    /\ gen.pc = "generate_content"
    /\ \E response \in Responses :
          gen' = [gen EXCEPT !.pc = "loads", !.retry = 0,
                             !.solicited = @ + 1,
                             !.responses = Append(@, response)]
    /\ GenUnchanged /\ UNCHANGED main

\* model.generate_content raises: generate_response sleeps and tries again,
\* or returns its error string after the last try.
ContentRaised ==
    /\ gen.pc = "generate_content"
    /\ gen' = IF RetriesLeft(gen.retry)
              THEN [gen EXCEPT !.retry = @ + 1, !.solicited = @ + 1]
              ELSE [gen EXCEPT !.pc = "loads", !.retry = 0,
                               !.solicited = @ + 1,
                               !.responses = Append(@, ErrorAfterRetries)]
    /\ GenUnchanged /\ UNCHANGED main

\* The rest of one pass: strip the fence, parse, validate, and return, go
\* round again or let the exception go.
EndAttempt ==
    /\ gen.pc = "loads"
    /\ LET response == gen.responses[Len(gen.responses)]
           parsed == Loads(Unfenced(response))
       IN gen' =
            IF parsed \in Exceptions /\ ~Except(parsed)
            THEN [gen EXCEPT !.pc = "raised", !.result = parsed]
            ELSE IF parsed \notin Exceptions
                    /\ StructureValid(parsed)
            THEN [gen EXCEPT !.pc = "done", !.result = parsed]
            ELSE IF LastAttempt(gen.attempt)
            THEN [gen EXCEPT !.pc = "done", !.result = ErrorValue(parsed)]
            ELSE [gen EXCEPT !.pc = "generate_content", !.attempt = @ + 1]
    /\ GenUnchanged /\ UNCHANGED main

NextGen == CallGenerateStuff \/ ContentReturned \/ ContentRaised \/ EndAttempt

\* The thread that called generate_stuff keeps running, and every call of
\* model.generate_content comes back.
FairnessGen == WF_vars(NextGen)

InitGen == InitFor({}, 0,
                   {CHOOSE c \in Collections : c["d1"]["content"] = Notes},
                   {Client(PublicUrl)})

SpecGen == InitGen /\ [][NextGen]_vars /\ FairnessGen

(***************************************************************************)
(* validate_response_structure (utils/gen_stuff.py) on parsed JSON.  A     *)
(* value carries its Python type; a dict carries its keys.                 *)
(***************************************************************************)
\* The longest list of flashcards or mcqs a response carries.
MaxItems == 11

Repeat(x, n) == [i \in 1..n |-> x]

FlashCard == [type |-> "dict", keys |-> {"front", "back"},
              front |-> "str", back |-> "str"]

BadFlashcards == {[FlashCard EXCEPT !.keys = {"front"}],
                  [FlashCard EXCEPT !.back = "int"],
                  [FlashCard EXCEPT !.type = "str"]}

Labels == {"A", "B", "C", "D"}

Mcq == [type |-> "dict", keys |-> {"question", "options", "correct_answer"},
        question |-> "str", options |-> "dict", labels |-> Labels,
        correct_answer |-> "A"]

BadMcqs == {[Mcq EXCEPT !.keys = {"question", "options"}],
            [Mcq EXCEPT !.question = "int"],
            [Mcq EXCEPT !.options = "list"],
            [Mcq EXCEPT !.labels = {"A", "B", "C"}],
            [Mcq EXCEPT !.correct_answer = "E"],
            [Mcq EXCEPT !.type = "str"]}

\* The values under "flashcards" and "mcqs": a list of good items of any
\* length, a list with one bad item, or a string.
ListsOf(good, bad) ==
    {[type |-> "list", items |-> Repeat(good, n)] : n \in 0..MaxItems}
    \cup {[type |-> "list", items |-> <<good, b>>] : b \in bad}
    \cup {[type |-> "str", items |-> <<>>]}

Summaries == {[type |-> "str", blank |-> FALSE],
              [type |-> "str", blank |-> TRUE],
              [type |-> "int", blank |-> FALSE]}

TopKeys == {"summary", "flashcards", "mcqs"}

\* What json.loads hands to the validator.
ParsedValues ==
    [type : {"dict"}, keys : {TopKeys}, summary : Summaries,
     flashcards : ListsOf(FlashCard, BadFlashcards),
     mcqs : ListsOf(Mcq, BadMcqs)]
    \cup [type : {"dict", "list"}, keys : {{"summary", "flashcards"}},
          summary : {[type |-> "str", blank |-> FALSE]},
          flashcards : {[type |-> "list", items |-> <<FlashCard>>]},
          mcqs : {[type |-> "list", items |-> <<Mcq>>]}]

validate_response_structure(data) ==
    /\ data.type = "dict"
    /\ TopKeys \subseteq data.keys
    /\ data.summary.type = "str" /\ ~data.summary.blank
    /\ data.flashcards.type = "list"
    /\ \A i \in DOMAIN data.flashcards.items :
          LET flashcard == data.flashcards.items[i]
          IN /\ flashcard.type = "dict"
             /\ {"front", "back"} \subseteq flashcard.keys
             /\ flashcard.front = "str" /\ flashcard.back = "str"
    /\ data.mcqs.type = "list"
    /\ \A i \in DOMAIN data.mcqs.items :
          LET mcq == data.mcqs.items[i]
          IN /\ mcq.type = "dict"
             /\ {"question", "options", "correct_answer"} \subseteq mcq.keys
             /\ mcq.question = "str"
             /\ mcq.options = "dict"
             /\ Labels \subseteq mcq.labels
             /\ mcq.correct_answer \in Labels

\* json.loads returned: the pass of generate_stuff has its parsed value.
ResponseParsed ==
    /\ gen.pc = "idle"
    /\ \E data \in ParsedValues :
          gen' = [pc |-> "validate", parsed_json |-> data, result |-> "None"]
    /\ GenUnchanged /\ UNCHANGED main

\* return parsed_json, or "Invalid JSON structure. Retrying...".
ValidateParsed ==
    /\ gen.pc = "validate"
    /\ gen' = [gen EXCEPT !.pc = "done",
                          !.result = IF validate_response_structure(gen.parsed_json)
                                     THEN "returned" ELSE "invalid"]
    /\ GenUnchanged /\ UNCHANGED main

NextValidate == ResponseParsed \/ ValidateParsed

SpecValidate == InitGen /\ [][NextValidate]_vars

(***************************************************************************)
(* The claims.                                                             *)
(***************************************************************************)
\* Every process_task call that has started.
Started == running \cup finished

\* The call has inserted its hash and gone on to the routed pipeline.
Entered(e) == e.pc \in {"pipeline", "except", "discard", "returned"}

\* The call is between its membership test having failed and its end.
Holding(e) == e.pc \in {"add", "pipeline", "except", "discard"}

SameHash(a, b) == a # b /\ a.task_hash = b.task_hash

\* C1: for every fingerprint at most one call is between inserting it and
\* its end, and the fingerprint is in processed_tasks all that while, so
\* that any other call with that fingerprint finds it there and skips; a
\* call gets past the membership test only when the fingerprint is absent.
C1_OneExecutionPerFingerprint ==
    /\ \A a, b \in running : SameHash(a, b) => ~(Holding(a) /\ Holding(b))
    /\ \A a \in running :
          a.pc \in {"pipeline", "except", "discard"} => a.task_hash \in processed_tasks
    /\ \A a \in running : a.pc = "add" => a.task_hash \notin processed_tasks

\* A pipeline is in progress and a call with the same fingerprint, started
\* meanwhile, has been skipped.
C1_Witness ==
    \E a \in running, b \in finished :
        /\ a.pc = "pipeline" /\ SameHash(a, b) /\ b.pc = "skipped"

\* C2 as stated: a call that was in progress while the pipeline of another
\* call with the same payload ran never runs a pipeline itself.
C2_Original ==
    \A x \in Started : x.id \in witnessed => x.pc \in {"start", "test", "skipped"}

\* C2: of two calls with the same payload both run a pipeline only if one
\* of them ended with an exception (which released the fingerprint); a call
\* that is skipped makes no collaborator call and has no result, and it is
\* skipped only because another call with its fingerprint went on to a
\* pipeline.
C2_OneRunsUnlessRaised ==
    /\ \A a, b \in Started :
          (SameHash(a, b) /\ Entered(a) /\ Entered(b)) => (a.raised \/ b.raised)
    /\ \A x \in finished :
          x.pc = "skipped" =>
             /\ x.calls = <<>> /\ x.status = Unbound
             /\ \E y \in Started : SameHash(x, y) /\ Entered(y)

\* Two calls with the same payload were in progress together: one completed
\* its pipeline, the other was skipped.
C2_Witness ==
    \E a, b \in finished :
        /\ SameHash(a, b) /\ b.id \in witnessed
        /\ a.status = "completed" /\ b.pc = "skipped"

\* C3: once a pipeline has returned with status completed, the fingerprint
\* is in processed_tasks in every later state, and no other call with that
\* fingerprint gets past the membership test.
C3_CompletedStaysBlocked ==
    \A f \in finished :
        f.status = "completed" =>
           /\ f.task_hash \in processed_tasks
           /\ \A x \in running : SameHash(f, x) => x.pc \in {"start", "test"}

\* A task completed, and a task with the same payload that started after the
\* pipeline had ended has been skipped.
C3_Witness ==
    \E f, g \in finished :
        /\ SameHash(f, g) /\ f.status = "completed"
        /\ g.pc = "skipped" /\ g.id \notin witnessed

\* C4: a call that ended with an exception leaves no entry behind: its
\* fingerprint is out of processed_tasks unless another call has inserted
\* it since and holds it or returned normally.
C4_ExceptionReleases ==
    \A f \in finished :
        f.raised =>
           \/ f.task_hash \notin processed_tasks
           \/ \E x \in Started :
                 /\ SameHash(f, x)
                 /\ \/ x.pc \in {"pipeline", "except", "discard"}
                    \/ x.pc = "returned" /\ ~x.raised

\* A call ended with an exception and a later call with the identical
\* payload is running its pipeline.
C4_Witness ==
    \E f \in finished, g \in running :
        /\ f.raised /\ SameHash(f, g) /\ g.task_data = f.task_data
        /\ g.queue_name = f.queue_name /\ g.pc = "pipeline"

\* C5: once a pipeline has returned a result with status failed, the
\* fingerprint stays in processed_tasks and no other call with that
\* fingerprint gets past the membership test.
C5_FailedStaysBlocked ==
    \A f \in finished :
        (f.pc = "returned" /\ f.status = "failed") =>
           /\ f.task_hash \in processed_tasks
           /\ \A x \in running : SameHash(f, x) => x.pc \in {"start", "test"}

\* A pipeline failed after its store read, and a later task with the same
\* payload has been skipped.
C5_Witness ==
    \E f, g \in finished :
        /\ SameHash(f, g) /\ f.status = "failed" /\ f.calls # <<>>
        /\ g.pc = "skipped" /\ g.id \notin witnessed

C7_AtMostMaxWorkers == Cardinality(running) <= max_workers

\* All threads are busy while a submitted task waits.
C7_Witness == Cardinality(running) = max_workers /\ work_queue # <<>>

LacksIds(task_data) ==
    /\ task_data.kind = "dict"
    /\ \/ Get(task_data, "documentId") \in {None, ""}
       \/ Get(task_data, "userId") \in {None, ""}

\* C9: a task without documentId or userId that reaches a pipeline gets a
\* result with status failed, and the pipeline makes no collaborator call.
C9_ValidationShortCircuits ==
    \A f \in Started :
        (LacksIds(f.task_data) /\ f.pc \in {"except", "discard", "returned"}) =>
           /\ f.pc = "returned" /\ f.status = "failed" /\ ~f.raised
           /\ f.calls = <<>>

\* A website task with an empty documentId has been failed by validation.
C9_Witness ==
    \E f \in finished :
        /\ f.queue_name = "process-website" /\ Get(f.task_data, "documentId") = ""
        /\ f.status = "failed"

GeneratorFailed(f) ==
    \E i \in 1..Len(f.calls) : f.calls[i].op = "generate_stuff" /\ f.calls[i].ret = "error"

\* C10: when the generator returned an error value, the result has status
\* failed; status completed means a valid artifact was stored.
C10_GeneratorErrorFails ==
    \A f \in finished : GeneratorFailed(f) => f.status = "failed"

\* The update_one calls of a process_task call, and the document they name.
UpdatesOf(f) == {i \in 1..Len(f.calls) : f.calls[i].op = "update_one"}

Matched(f) == \E i \in UpdatesOf(f) : f.calls[i].ret = "matched"

GeneratorError(f) ==
    generate_stuff(f.calls[CHOOSE i \in 1..Len(f.calls) : f.calls[i].op = "generate_stuff"].args[1],
                   [gen |-> "error"])["error"]

ArtifactFields == {"summary", "flashcards", "mcqs"}
StatusFields == {"summary_status", "flashcard_status", "mcq_status"}

C11_FailedSet ==
    \A f \in finished :
        GeneratorFailed(f) =>
           /\ Cardinality(UpdatesOf(f)) = 1
           /\ \A i \in UpdatesOf(f) :
                 LET u == f.calls[i].set
                 IN /\ \A k \in StatusFields : k \in DOMAIN u /\ u[k] = "FAILED"
                    /\ "processing_error" \in DOMAIN u
                    /\ u["processing_error"] = GeneratorError(f)
                    /\ DOMAIN u \cap ArtifactFields = {}

C11_FailedWrite ==
    \A f \in finished' \ finished :
        (GeneratorFailed(f) /\ Matched(f)) =>
           LET d == Get(f.task_data, "documentId")
           IN /\ \A k \in StatusFields : collection'[d][k] = "FAILED"
              /\ collection'[d]["processing_error"] = GeneratorError(f)
              /\ \A k \in ArtifactFields :
                    Field(collection'[d], k, None) = Field(collection[d], k, None)

\* C11: when generate_stuff returned a dict with the key "error", the task
\* issues exactly one update_one, whose $set puts FAILED in summary_status,
\* flashcard_status and mcq_status and the error in processing_error and
\* has none of summary, flashcards, mcqs; the matched document gets exactly
\* that, its summary, flashcards and mcqs staying as they were.
C11_GeneratorErrorWritesFailed == []C11_FailedSet /\ [][C11_FailedWrite]_vars

\* A task whose generator failed has written FAILED statuses to its document.
C11_Witness ==
    \E f \in finished :
        /\ GeneratorFailed(f) /\ Matched(f)
        /\ Field(Field(collection, Get(f.task_data, "documentId"), NoSet),
                 "summary_status", None) = "FAILED"

GeneratedArtifact(f) ==
    \E i \in 1..Len(f.calls) : f.calls[i].op = "generate_stuff" /\ f.calls[i].ret = "artifact"

\* The artifact the generator returned to the call.
ArtifactOf(f) ==
    generate_stuff(f.calls[CHOOSE i \in 1..Len(f.calls) : f.calls[i].op = "generate_stuff"].args[1],
                   [gen |-> "artifact"])

\* A process-text task with both ids whose store read gave content, whose
\* generator gave an artifact and whose update matched the record.
TextTaskSucceeds(f) ==
    /\ f.queue_name = "process-text"
    /\ Truthy(Get(f.task_data, "documentId")) /\ Truthy(Get(f.task_data, "userId"))
    /\ GeneratedArtifact(f) /\ Matched(f)

C12_CompletedSet ==
    \A f \in finished :
        TextTaskSucceeds(f) =>
           /\ f.status = "completed"
           /\ Cardinality(UpdatesOf(f)) = 1
           /\ Cardinality({i \in 1..Len(f.calls) : f.calls[i].op = "update_document_content"}) = 1
           /\ \A i \in UpdatesOf(f) :
                 LET u == f.calls[i].set
                 IN /\ \A k \in StatusFields : k \in DOMAIN u /\ u[k] = "COMPLETED"
                    /\ \A k \in ArtifactFields : k \in DOMAIN u /\ u[k] = ArtifactOf(f)[k]
                    /\ "processing_error" \notin DOMAIN u

C12_CompletedWrite ==
    \A f \in finished' \ finished :
        TextTaskSucceeds(f) =>
           LET d == Get(f.task_data, "documentId")
           IN /\ \A k \in StatusFields : collection'[d][k] = "COMPLETED"
              /\ \A k \in ArtifactFields : collection'[d][k] = ArtifactOf(f)[k]

\* C12: a process-text task with both ids, non-empty stored content, a
\* valid artifact from the generator and a matching record issues exactly
\* one store update, whose $set has COMPLETED in the three status fields
\* and the generator's summary, flashcards and mcqs; the document gets
\* them, and the result has status completed.
C12_TextTaskCompletes == []C12_CompletedSet /\ [][C12_CompletedWrite]_vars

\* A process-text task has completed and its document holds the summary.
C12_Witness ==
    \E f \in finished :
        /\ TextTaskSucceeds(f) /\ f.status = "completed"
        /\ Field(Field(collection, Get(f.task_data, "documentId"), NoSet),
                 "summary", None) = "summary-1"

Invoked(f, op) == \E i \in 1..Len(f.calls) : f.calls[i].op = op

InvokedWith(f, op, ret) ==
    \E i \in 1..Len(f.calls) : f.calls[i].op = op /\ f.calls[i].ret = ret

\* The store read of the call came back with nothing: the method failed, no
\* document has the ids, or the field is empty.
ReadFailed(f) ==
    /\ f.calls # <<>>
    /\ f.calls[1].op \in {"fetch_document_content", "fetch_document_file_url"}
    /\ f.calls[1].ret \in {None, ""}

DownloadFailed(f) == InvokedWith(f, "download_file_from_url", None)

ExtractedNothing(f) == InvokedWith(f, "process_pdf", "")

AcquireFailed(f) == ReadFailed(f) \/ DownloadFailed(f) \/ ExtractedNothing(f)

C13_NoGenerate ==
    \A f \in finished :
        AcquireFailed(f) =>
           /\ f.pc = "returned" /\ f.status = "failed"
           /\ ~Invoked(f, "generate_stuff")
           /\ ~Invoked(f, "update_document_content")
           /\ UpdatesOf(f) = {}

C13_NoWrite ==
    \A f \in finished' \ finished : AcquireFailed(f) => collection' = collection

\* C13: when the store read gives no document, no content or no file URL,
\* when every download strategy failed, or when the pdf yields no text, the
\* result has status failed, neither generate_stuff nor the store update is
\* called, and the collection is left as it was.
C13_AcquireFailureShortCircuits == []C13_NoGenerate /\ [][C13_NoWrite]_vars

\* A pdf task has failed after all three download strategies failed.
C13_Witness ==
    \E f \in finished :
        /\ DownloadFailed(f) /\ f.status = "failed"
        /\ Cardinality({i \in 1..Len(f.calls) :
                           f.calls[i].op \in {"download_file_from_s3", "_download_file_via_http"}}) = 3

\* The store update of the call matched no record, or failed.
PersistFailed(f) == \E i \in UpdatesOf(f) : f.calls[i].ret \in {"unmatched", "error"}

C14_FailedOnce ==
    \A f \in finished :
        PersistFailed(f) =>
           /\ f.pc = "returned" /\ f.status = "failed"
           /\ Cardinality({i \in 1..Len(f.calls) : f.calls[i].op = "generate_stuff"}) = 1
           /\ Cardinality(UpdatesOf(f)) = 1

C14_NothingStored ==
    \A f \in finished' \ finished :
        PersistFailed(f) => \A d \in DOMAIN collection' : collection'[d] = collection[d]

\* C14: when update_one matches no record or fails, the result has status
\* failed although generate_stuff ran; the generator and the update are
\* called once each, and no document receives the generated data.
C14_PersistFailureFails == []C14_FailedOnce /\ [][C14_NothingStored]_vars

\* A task whose document was gone at the update has failed after generating.
C14_Witness ==
    \E f \in finished :
        /\ \E i \in UpdatesOf(f) : f.calls[i].ret = "unmatched"
        /\ GeneratedArtifact(f) /\ f.status = "failed"

\* The call ended in a failure: a failed result, an exception, or an error
\* value from the generator.
TaskFailed(f) == f.status = "failed" \/ f.raised \/ GeneratorFailed(f)

\* The call wrote FAILED into the three status fields of its document.
WroteFailed(f) ==
    \E i \in UpdatesOf(f) :
        /\ f.calls[i].ret = "matched"
        /\ \A k \in StatusFields : Field(f.calls[i].set, k, None) = "FAILED"
        /\ Field(f.calls[i].set, "processing_error", None) # None

\* C15 as stated: every failure past validation writes FAILED statuses and
\* an error string to the document record.
C15_Original ==
    \A f \in finished : (TaskFailed(f) /\ f.calls # <<>>) => WroteFailed(f)

C15_WhoWritesFailed ==
    \A f \in finished :
        /\ WroteFailed(f) <=> (GeneratorFailed(f) /\ Matched(f))
        /\ (TaskFailed(f) /\ ~GeneratorFailed(f)) => UpdatesOf(f) = {} \/ ~Matched(f)

C15_OnlyMatchedWrites ==
    (\E d \in DOMAIN collection' : collection'[d] # collection[d]) =>
        \E f \in finished' \ finished : Matched(f)

\* C15: FAILED statuses and an error string are written to the document
\* record exactly when the generator returned an error value and the update
\* matched; a task that fails in any other way (validation, store read,
\* download, extraction, store update, exception) writes nothing, and a
\* document changes only in a step of a call whose update matched.
C15_FailedWrittenOnGeneratorError ==
    []C15_WhoWritesFailed /\ [][C15_OnlyMatchedWrites]_vars

\* A call has ended with an exception after its store read, and no document
\* carries a status.
C15_Witness ==
    \E f \in finished :
        /\ f.raised /\ f.calls # <<>>
        /\ \A d \in DOMAIN collection : "summary_status" \notin DOMAIN collection[d]

\* The download strategies the call attempted, in order, and what
\* download_file_from_url was given and returned.
Attempts(f) ==
    SelectSeq(f.calls, LAMBDA c : c.op \in {"download_file_from_s3", "_download_file_via_http"})

Resolved(f) ==
    f.calls[CHOOSE i \in 1..Len(f.calls) : f.calls[i].op = "download_file_from_url"]

Resolving(f) == Invoked(f, "download_file_from_url") /\ Resolved(f).ret # "raise"

\* The three strategies for a URL, in the fixed order.
S3Attempt(c) == c.op = "download_file_from_s3"
HttpAttempt(c, file_url) == c.op = "_download_file_via_http" /\ c.args = UrlParts(file_url)
AlternativeAttempt(c, file_url) == c.op = "_download_file_via_http" /\ c.args # UrlParts(file_url)

Rank(c, file_url) ==
    IF S3Attempt(c) THEN 1 ELSE IF HttpAttempt(c, file_url) THEN 2 ELSE 3

\* C16: the strategies are attempted in the order storage fetch, HTTP GET
\* of the original URL, HTTP GET of the alternative URL; every attempt but
\* the last has failed, and download_file_from_url returns what the last
\* attempt returned; so a failed storage fetch followed by a successful
\* HTTP GET of the original URL yields the file of that GET, with no third
\* attempt.
C16_OrderedFirstSuccess ==
    \A f \in finished :
        Resolving(f) =>
           LET a == Attempts(f)
               file_url == Resolved(f).args[1]
           IN /\ a # <<>>
              /\ \A i, j \in 1..Len(a) : i < j => Rank(a[i], file_url) < Rank(a[j], file_url)
              /\ \A i \in 1..Len(a) - 1 : a[i].ret = None
              /\ Resolved(f).ret = a[Len(a)].ret
              /\ \E i \in 1..Len(a) : HttpAttempt(a[i], file_url) \/ a[i].ret # None
              /\ (\E i \in 1..Len(a) : HttpAttempt(a[i], file_url) /\ a[i].ret # None) =>
                    Resolved(f).ret = "tmp-http"

\* The storage fetch failed, the HTTP GET of the original URL succeeded and
\* its file was returned.
C16_Witness ==
    \E f \in finished :
        /\ Resolving(f) /\ Resolved(f).ret = "tmp-http"
        /\ Len(Attempts(f)) = 2 /\ S3Attempt(Attempts(f)[1]) /\ Attempts(f)[1].ret = None

\* The temporary file a strategy creates.
TempOf(c, file_url) ==
    IF S3Attempt(c) THEN "tmp-s3"
    ELSE IF HttpAttempt(c, file_url) THEN "tmp-http" ELSE "tmp-alt"

\* C17: the temporary file of every failed download strategy is gone; when
\* all strategies failed, the call has left no temporary file at all.
C17_FailedStrategyLeavesNoFile ==
    \A f \in finished :
        Resolving(f) =>
           LET a == Attempts(f)
               file_url == Resolved(f).args[1]
           IN /\ \A i \in 1..Len(a) :
                    a[i].ret = None => <<f.id, TempOf(a[i], file_url)>> \notin temp_files
              /\ DownloadFailed(f) => \A t \in temp_files : t[1] # f.id

\* The pipeline of the call has ended, by a return or by an exception.
PipelineEnded(f) == f.pc \in {"except", "discard", "returned"}

\* download_file_from_url returned a temporary file to the call.
GotFile(f) == Resolving(f) /\ Resolved(f).ret # None

HttpFailed(f) ==
    \E i \in 1..Len(Attempts(f)) :
        HttpAttempt(Attempts(f)[i], Resolved(f).args[1]) /\ Attempts(f)[i].ret = None

Alternatives(f) ==
    {i \in 1..Len(Attempts(f)) : AlternativeAttempt(Attempts(f)[i], Resolved(f).args[1])}

\* C19 as stated: the alternative URL is tried whenever the HTTP GET of the
\* original URL failed and a public base URL is configured.
C19_Original ==
    \A f \in finished :
        (Resolving(f) /\ HttpFailed(f) /\ s3_client.public_url # NoUrl) => Alternatives(f) # {}

\* C19: the HTTP GET of the alternative URL is attempted exactly when the
\* HTTP GET of the original URL failed, a public base URL is configured and
\* a key could be derived from the URL (the URL starts with the endpoint);
\* it is attempted at most once, on the key put under the public base.
C19_AlternativeWhenKeyAndBase ==
    \A f \in finished :
        Resolving(f) =>
           LET file_url == Resolved(f).args[1]
               derived == StartsWith(UrlParts(file_url), s3_client.endpoint_url)
           IN /\ Cardinality(Alternatives(f)) <= 1
              /\ Alternatives(f) # {} <=>
                    (HttpFailed(f) /\ s3_client.public_url # NoUrl /\ derived)
              /\ \A i \in Alternatives(f) :
                    /\ StartsWith(Attempts(f)[i].args, s3_client.public_url)
                    /\ Attempts(f)[i].args =
                          s3_client.public_url \o extract_s3_key_from_url(s3_client, file_url)

\* The alternative URL was tried after the two other strategies failed, and
\* gave the file.
C19_Witness ==
    \E f \in finished :
        /\ Resolving(f) /\ HttpFailed(f) /\ Alternatives(f) # {}
        /\ Resolved(f).ret = "tmp-alt"

\* The poller of q holds a popped element that is not JSON.
HoldsMalformed(q) == poller[q].pc = "loads" /\ poller[q].text.kind = "malformed"

Submitted == {work_queue[i] : i \in 1..Len(work_queue)}

C20_NeverSubmitted ==
    /\ \A x \in Submitted \cup Started : x.task_data.kind # "JSONDecodeError"
    /\ \A q \in QueueNames :
          (poller[q].pc = "brpop" /\ redis[q] # <<>>) => ENABLED Pop(q)

C20_Dropped ==
    \A q \in QueueNames :
        (HoldsMalformed(q) /\ poller'[q] # poller[q]) =>
           /\ poller'[q].pc = "brpop"
           /\ work_queue' = work_queue /\ running' = running /\ finished' = finished
           /\ processed_tasks' = processed_tasks /\ collection' = collection

\* C20: an element that is not valid JSON is dropped: the step of the poller
\* that handles it puts nothing on the pool's queue, starts no process_task
\* call, leaves processed_tasks and the collection as they are, and takes
\* the poller back to brpop, where it pops the next element of its list.
C20_MalformedDropped == []C20_NeverSubmitted /\ [][C20_Dropped]_vars

\* The first element of process-text was dropped and the second is being
\* processed.
C20_Witness ==
    /\ work_queue = <<>>
    /\ poller["process-text"].pc = "brpop"
    /\ \E f \in Started : f.id = <<"process-text", 2>>
    /\ \A f \in Started : f.id # <<"process-text", 1>>


\* The places of an iteration of poll_queue other than the blocking pop.
AwayFromPop(q) == poller[q].pc \in {"loads", "timeout", "sleep(5)", "sleep(1)"}

\* C21: the loop of a poller never ends: whenever the poller of a queue is
\* away from its blocking pop (brpop returned an element, a malformed one
\* included, or returned None on timeout, or raised RedisError or another
\* exception), it is later in brpop on its queue again.
C21_PollerNeverTerminates ==
    \A q \in QueueNames : AwayFromPop(q) ~> (poller[q].pc = "brpop")

\* The poller of process-text is in brpop again after an element that it
\* dropped, while the three others are after a timeout, a RedisError and
\* another exception.
C21_Witness ==
    /\ poller["process-text"].pc = "brpop" /\ popped["process-text"] = 1
    /\ work_queue = <<>> /\ Started = {}
    /\ poller["process-website"].pc = "timeout"
    /\ poller["process-pdf"].pc = "sleep(5)"
    /\ poller["process-ytvideo"].pc = "sleep(1)"


\* The popped element is JSON text in UTF-8.
WellFormed(text) == text.kind \in {"object", "array"}

C22_OneCallEach ==
    /\ \A i, j \in 1..Len(work_queue) : work_queue[i].id = work_queue[j].id => i = j
    /\ \A w \in Submitted, e \in Started : w.id # e.id
    /\ \A a, b \in Started : a.id = b.id => a = b
    /\ \A x \in Submitted \cup Started : x.id[2] \in 1..popped[x.id[1]]
    /\ \A f \in finished : f.pc \in {"returned", "skipped"}

C22_SubmittedOnce ==
    \A q \in QueueNames :
        (poller[q].pc = "loads" /\ WellFormed(poller[q].text) /\ poller'[q] # poller[q]) =>
           /\ work_queue' = Append(work_queue, [id |-> <<q, popped[q]>>, queue_name |-> q,
                                                task_data |-> json_loads(poller[q].text)])
           /\ poller'[q].pc = "brpop"

C22_NeverLost ==
    /\ \A x \in Submitted \cup Started : \E y \in Submitted' \cup Started' : y.id = x.id
    /\ \A x \in finished : \E y \in finished' : y.id = x.id

\* A popped well-formed element is still on its way: held by its poller,
\* submitted, or in a call in progress.
Unsettled ==
    \/ \E q \in QueueNames : poller[q].pc = "loads" /\ WellFormed(poller[q].text)
    \/ work_queue # <<>>
    \/ running # {}

C22_Executed == Unsettled ~> ~Unsettled

FromQueue(q) == {i \in 1..Len(work_queue) : work_queue[i].queue_name = q}

\* Within each queue the popped elements are, oldest first: those whose
\* calls a pool thread has taken, those waiting in the executor's queue (in
\* their order there), and the one the poller holds.
C23_InOrder ==
    \A q \in QueueNames :
        /\ \A i, j \in FromQueue(q) : i < j => work_queue[i].id[2] < work_queue[j].id[2]
        /\ \A e \in Started, i \in FromQueue(q) :
              e.queue_name = q => e.id[2] < work_queue[i].id[2]
        /\ \A x \in Started \cup Submitted :
              (x.queue_name = q /\ poller[q].pc = "loads") => x.id[2] < popped[q]

\* brpop takes the oldest element of the list and leaves the others in
\* their order; the element popped n-th has the number n.
C23_PopsOldest ==
    \A q \in QueueNames :
        popped'[q] # popped[q] =>
           /\ popped'[q] = popped[q] + 1
           /\ poller'[q] = [pc |-> "loads", text |-> Head(redis[q])]
           /\ redis'[q] = Tail(redis[q])

\* C23: within a queue the elements are popped oldest first, their calls
\* are queued in the executor in that order and taken by the pool's threads
\* in that order: when the call of an element has started, the call of every
\* well-formed element popped before it from the same queue has started too.
C23_FifoWithinQueue == []C23_InOrder /\ [][C23_PopsOldest]_vars

\* Two elements of process-text: the call of the second has ended while the
\* call of the first, started before it, is still in its pipeline.
C23_Witness ==
    \E a \in running, b \in finished :
        /\ a.id = <<"process-text", 1>> /\ b.id = <<"process-text", 2>>
        /\ a.pc = "pipeline"


\* The call's queue name is none of the four the if/elif chain knows.
UnknownQueue(e) == e.queue_name \notin QueueNames

C24_NoPipeline ==
    \A f \in Started :
        UnknownQueue(f) =>
           /\ f.calls = <<>> /\ f.status = Unbound /\ ~f.raised
           /\ f.pc \in {"start", "test", "add", "pipeline", "returned", "skipped"}

C24_NoEffect ==
    \A e \in running :
        (UnknownQueue(e) /\ e.pc = "pipeline" /\ e \notin running') =>
           /\ At(e, "returned") \in finished'
           /\ collection' = collection /\ temp_files' = temp_files
           /\ processed_tasks' = processed_tasks

\* C24: a process_task call with a queue name other than the four makes no
\* collaborator call and gets no result dict; no exception leaves the routing
\* (the handler of process_task never runs for it), and the step past the
\* routing leaves the collection, the temporary files and processed_tasks
\* as they are and ends the call.
C24_UnknownQueueDropped == []C24_NoPipeline /\ [][C24_NoEffect]_vars

\* A call with an unknown queue name has ended; its fingerprint is in
\* processed_tasks.
C24_Witness ==
    \E f \in finished :
        /\ UnknownQueue(f) /\ f.pc = "returned" /\ f.task_data.kind = "dict"
        /\ f.task_hash \in processed_tasks


\* Two calls with the same payload that came from different queues.
AcrossQueues(a, b) == a.queue_name # b.queue_name /\ a.task_data = b.task_data

\* C25 as stated: of two calls with the same payload from different queues
\* only one ever runs a pipeline.
C25_Original ==
    \A a, b \in Started : AcrossQueues(a, b) => ~(Entered(a) /\ Entered(b))

C25_Collide ==
    \A a, b \in Started :
        AcrossQueues(a, b) =>
           /\ a.task_hash = b.task_hash
           /\ ~(Holding(a) /\ Holding(b))
           /\ (Entered(a) /\ Entered(b)) => (a.raised \/ b.raised)

C25_OtherSkipped ==
    \A b \in running :
        (/\ b.pc = "test" /\ b \notin running'
         /\ \E a \in Started : AcrossQueues(a, b) /\ a.task_hash \in processed_tasks) =>
           /\ At(b, "skipped") \in finished'
           /\ collection' = collection

\* C25: the fingerprint is computed from the payload alone, so calls with
\* the same payload from different queues have the same fingerprint: at most
\* one of them is past the membership test at a time, the one that finds
\* the fingerprint present is skipped, and both run a pipeline only if one
\* of them ended with an exception (which removed the fingerprint).
C25_FingerprintIgnoresQueue == []C25_Collide /\ [][C25_OtherSkipped]_vars

\* The payload came on process-ytvideo and on process-text: the call of one
\* queue completed its pipeline, the call of the other was skipped.
C25_Witness ==
    \E a, b \in finished :
        /\ AcrossQueues(a, b)
        /\ a.status \in {"completed", "failed"} /\ b.pc = "skipped"


\* The Normalize step of the pdf, video and website pipelines.
NormalizeOps == {"process_pdf", "get_transcript", "scrape_website"}

\* The call at position i of the trace of f yielded the empty string and
\* generate_stuff was then called with it.
EmptyPassedOn(f, i) ==
    \E j \in (i + 1)..Len(f.calls) :
        f.calls[j].op = "generate_stuff" /\ f.calls[j].args = <<"">>

\* C26: no transcript fetch and no scrape raises, and whenever a Normalize
\* step yields the empty string (a pdf without text, a transcript that is
\* disabled, unavailable or whose link cannot be parsed, a failed scrape),
\* generate_stuff is called with that empty string.
C26_NormalizeNeverRaises ==
    \A f \in Started :
        \A i \in 1..Len(f.calls) :
            /\ f.calls[i].op \in {"get_transcript", "scrape_website"} => f.calls[i].ret # "raise"
            /\ (f.calls[i].op \in NormalizeOps /\ f.calls[i].ret = "") => EmptyPassedOn(f, i)


\* C27: in the website pipeline scrape_website is called with the content
\* that fetch_document_content returned for the task's document (the URL the
\* record holds).
C27_ScrapesDocumentUrl ==
    \A f \in Started :
        \A i \in 1..Len(f.calls) :
            f.calls[i].op = "scrape_website" =>
               /\ f.calls[1].op = "fetch_document_content"
               /\ f.calls[i].args = <<f.calls[1].ret>>


\* The calls whose pipeline ends in this step.
EndingNow == (finished' \ finished) \cup {e \in running' \ running : e.pc = "except"}

\* The field a store read of the call returns.
FieldRead(f) == IF f.calls[1].op = "fetch_document_content" THEN "content" ELSE "fileUrl"

\* The record exists and its owner is the user.
Owns(coll, document_id, user_id) ==
    document_id \in DOMAIN coll /\ coll[document_id]["userId"] = user_id

C28_QueriesByBothIds ==
    \A f \in Started :
        \A i \in 1..Len(f.calls) :
            f.calls[i].op \in {"fetch_document_content", "fetch_document_file_url",
                               "update_document_content", "update_one"} =>
               f.calls[i].args = <<Get(f.task_data, "documentId"), Get(f.task_data, "userId")>>

C28_OwnRecordOnly ==
    \A f \in EndingNow :
        f.calls # <<>> =>
           LET d == Get(f.task_data, "documentId")
               u == Get(f.task_data, "userId")
           IN /\ f.calls[1].ret \notin {None, "", "raise"} =>
                    /\ Owns(collection, d, u)
                    /\ f.calls[1].ret = collection[d][FieldRead(f)]
              /\ \A x \in DOMAIN collection' :
                    collection'[x] # collection[x] => (x = d /\ Owns(collection, d, u))

\* C28: every store read and update of a task carries the task's documentId
\* and userId; a read returns a value only when the record with that id is
\* owned by that user, and then that record's field; and the only record a
\* task modifies is the one with its documentId, and only when its owner is
\* the task's userId.
C28_ScopedByBothIds == []C28_QueriesByBothIds /\ [][C28_OwnRecordOnly]_vars

\* A task of user u1 for document d2, which user u2 owns, has failed after
\* its read came back with nothing; d2 is as it was.
C28_Witness ==
    \E f \in finished :
        /\ Get(f.task_data, "documentId") = "d2" /\ Get(f.task_data, "userId") = "u1"
        /\ Len(f.calls) = 1 /\ f.calls[1].ret = None /\ f.status = "failed"
        /\ collection["d2"] = Doc("u2", PageLink, UrlInBucket)


\* The values the three status fields of a record have (None: not set).
StatusesOf(doc) == {Field(doc, k, None) : k \in StatusFields}

\* C29: every update_one of a task sets the three status fields together
\* and to one value, so in every state each record has its summary_status,
\* flashcard_status and mcq_status all COMPLETED or all FAILED (or, before
\* its first update, none of them), whatever the order in which concurrent
\* tasks update it.
C29_StatusesNeverMixed ==
    /\ \A d \in DOMAIN collection :
          StatusesOf(collection[d]) \in {{None}, {"COMPLETED"}, {"FAILED"}}
    /\ \A f \in Started :
          \A i \in UpdatesOf(f) :
              /\ StatusFields \subseteq DOMAIN f.calls[i].set
              /\ StatusesOf(f.calls[i].set) \in {{"COMPLETED"}, {"FAILED"}}

\* Two tasks have updated d1 one after the other: the artifact of the one
\* that completed is there, and the statuses are those of the one whose
\* generator failed.
C29_Witness ==
    /\ \E a, b \in finished : a # b /\ Matched(a) /\ Matched(b)
    /\ "d1" \in DOMAIN collection
    /\ Field(collection["d1"], "summary", None) = "summary-1"
    /\ StatusesOf(collection["d1"]) = {"FAILED"}

\* The response holds a complete artifact: it parses, once its fence is
\* off, and validates.
ParsesAndValidates(response) == response.body = "artifact"

\* The passes of generate_stuff that have received their response.
PassesMade == Len(gen.responses)

\* What generate_stuff hands back is the artifact of the first good
\* response, or an error value after max_attempts bad ones; it lets no
\* exception out and it solicits the model no more often than its two
\* loops allow.
C30_Returns ==
    /\ gen.pc \in {"idle", "generate_content", "loads", "done"}
    /\ PassesMade <= max_attempts
    /\ gen.solicited <= max_attempts * max_retries
    /\ gen.pc = "done" =>
          \/ /\ gen.result = "artifact"
             /\ gen.attempt = PassesMade - 1
             /\ ParsesAndValidates(gen.responses[PassesMade])
             /\ \A i \in 1..(PassesMade - 1) :
                   ~ParsesAndValidates(gen.responses[i])
          \/ /\ gen.result \in ErrorValues
             /\ PassesMade = max_attempts
             /\ \A i \in 1..PassesMade : ~ParsesAndValidates(gen.responses[i])

\* Once a good response is in, the next step returns, and the model is not
\* solicited again; after the return nothing more happens.
C30_NoFurtherSolicitation ==
    /\ (gen.pc = "loads" /\ ParsesAndValidates(gen.responses[PassesMade])) =>
          (gen'.pc = "done" /\ gen'.solicited = gen.solicited)
    /\ gen.pc = "done" => gen' = gen

\* C30: generate_stuff always terminates: it returns the artifact on the
\* first attempt whose response parses and validates, without further model
\* solicitation, and returns an error value after 3 attempts that are
\* malformed or invalid; it never raises to the pipeline.
C30_GenerateStuffTerminates ==
    /\ []C30_Returns
    /\ [][C30_NoFurtherSolicitation]_vars
    /\ <>(gen.pc = "done")

\* Both endings after three passes: the artifact at the third pass, each
\* pass after two failed tries of generate_response, is one of them.
C30_Witness ==
    /\ gen.pc = "done"
    /\ gen.result = "artifact"
    /\ PassesMade = max_attempts
    /\ gen.solicited = max_attempts * max_retries
    /\ gen.responses[1].body = "text"
    /\ gen.responses[2].body = "partial"
    /\ gen.responses[3].fenced

\* The value a pass of generate_stuff returned to the pipeline.
ReturnedArtifact == gen.pc = "done" /\ gen.result = "returned"

WellFormedMcq(mcq) ==
    Labels \subseteq mcq.labels /\ mcq.correct_answer \in Labels

\* C31: every non-error value the generator returns has between 1 and 10
\* flashcards and between 1 and 10 mcqs, each mcq with the four options A-D
\* and a correct label among them; a response with zero or more than ten
\* flashcards or mcqs is not accepted.
C31_CountsEnforced ==
    ReturnedArtifact =>
        /\ Len(gen.parsed_json.flashcards.items) \in 1..10
        /\ Len(gen.parsed_json.mcqs.items) \in 1..10
        /\ \A i \in DOMAIN gen.parsed_json.mcqs.items :
              WellFormedMcq(gen.parsed_json.mcqs.items[i])

\* The calls whose pipeline stage never returned.
HungCalls == {e \in running \cup finished : e.status = "hung"}

\* A call whose stage hung is on its pool thread, inside the pipeline, with
\* its fingerprint in processed_tasks.
C32_Occupies ==
    \A e \in HungCalls :
        e \in running /\ e.pc = "stuck" /\ e.task_hash \in processed_tasks

\* No step takes a hung call off its thread or its fingerprint out of the set.
C32_NeverCancelled ==
    \A e \in running :
        e.pc = "stuck" => (e \in running' /\ e.task_hash \in processed_tasks')

\* C32: the task timeout is never enforced: no action of the worker cancels
\* or abandons a running pipeline, so a stage that never returns keeps its
\* pool thread occupied and its fingerprint in processed_tasks forever.
C32_TimeoutNeverEnforced == []C32_Occupies /\ [][C32_NeverCancelled]_vars

\* A stage hung, everything else has been worked off, and a later task with
\* the same payload was skipped because of the fingerprint left behind.
C32_Witness ==
    /\ \A q \in QueueNames : redis[q] = <<>> /\ poller[q] = Idle
    /\ work_queue = <<>>
    /\ \E e \in running :
          /\ e.pc = "stuck"
          /\ running = {e}
          /\ \E f \in finished : f.pc = "skipped" /\ f.task_hash = e.task_hash

\* The calls inside a with processing_lock block.
InCritical == {e \in running : e.pc \in {"test", "add", "discard"}}

\* The lock is held by at most one call, and only by a call that is at the
\* membership test, the insert or the discard: never during a pipeline.
C33_HeldOnlyAroundSet ==
    /\ processing_lock = {e.id : e \in InCritical}
    /\ Cardinality(processing_lock) <= 1

\* A call waiting for the lock can take it whenever no call is at one of
\* those three statements, whatever pipelines are running or hung.
C33_NotBlockedByPipeline ==
    \A x \in running :
        (x.pc = "start" /\ InCritical = {}) => ENABLED AcquireLock(x)

C33_ReleaseNotBlocked ==
    \A x \in running :
        (x.pc = "except" /\ InCritical = {}) => ENABLED ExceptLock(x)

\* C33: the processing lock is held only around the membership test, the
\* insert and the discard on processed_tasks and never while a pipeline
\* stage runs, so a worker in a long pipeline never prevents another worker
\* from acquiring or releasing a different fingerprint.
C33_LockNotHeldInPipeline ==
    C33_HeldOnlyAroundSet /\ C33_NotBlockedByPipeline /\ C33_ReleaseNotBlocked

\* While one call's stage hangs, a call with another fingerprint holds the
\* lock to discard its own.
C33_Witness ==
    \E e, f \in running :
        /\ e.pc = "stuck"
        /\ f.pc = "discard"
        /\ f.task_hash # e.task_hash
        /\ processing_lock = {f.id}

\* The threads about to read or write processed_tasks.
Accessing ==
    {e.id : e \in InCritical} \cup (IF main.pc = "len" THEN {<<"main", 0>>} ELSE {})

\* C34: the fingerprint set is the only mutable state shared between the
\* threads, and every access to it, by workers and by the status loop of the
\* main thread, happens while holding the processing lock; the running
\* pipelines create or write no other process-wide state.
C34_OnlySharedStateLocked ==
    /\ Accessing \subseteq processing_lock
    /\ mongo_connection = None

\* The running calls that inserted the fingerprint and have not yet ended.
Holders(task_hash) ==
    {e \in running : e.task_hash = task_hash
                     /\ e.pc \in {"pipeline", "stuck", "except", "discard"}}

\* A fingerprint has at most one running call that inserted it.
C35_OneHolder ==
    \A e \in running :
        Holders(e.task_hash) # {} =>
            /\ e.task_hash \in processed_tasks
            /\ Cardinality(Holders(e.task_hash)) = 1

\* A fingerprint leaves the set only in the discard of the one call that
\* inserted it, in that call's exception handler, and it enters the set only
\* in the add of a call that found it absent.
C35_ByOwnerOnly ==
    /\ \A h \in processed_tasks \ processed_tasks' :
          \E e \in running :
              /\ Holders(h) = {e}
              /\ e.pc = "discard" /\ e.raised
              /\ e \notin running'
              /\ \A x \in running' : x.task_hash = h => x.pc \in {"start", "test", "add"}
    /\ \A h \in processed_tasks' \ processed_tasks :
          \E e \in running : e.pc = "add" /\ e.task_hash = h

\* The step that skips a duplicate leaves the set as it is.
C35_SkipLeavesSet ==
    (\E f \in finished' \ finished : f.pc = "skipped") =>
        processed_tasks' = processed_tasks

\* C35: a fingerprint is removed from processed_tasks only by the execution
\* that inserted it and only on that execution's exception path; a skipped
\* duplicate never removes or adds an entry, and no release unblocks a
\* fingerprint that another still-running execution holds.
C35_ReleasedOnlyByOwner ==
    []C35_OneHolder /\ [][C35_ByOwnerOnly /\ C35_SkipLeavesSet]_vars

\* The owner is at its discard, in its exception handler, after a duplicate
\* was skipped: the fingerprint is still where the owner put it.
C35_Witness ==
    \E e \in running :
        /\ e.pc = "discard" /\ e.raised
        /\ e.task_hash \in processed_tasks
        /\ \E f \in finished : f.pc = "skipped" /\ f.task_hash = e.task_hash

\* The calls with an unknown queue name that inserted their fingerprint.
UnknownEntered ==
    {f \in running \cup finished :
        UnknownQueue(f) /\ f.pc \in {"pipeline", "except", "discard", "returned"}}

\* The fingerprint of a call with an unknown queue name stays in the set.
C36_NeverReleased == \A f \in UnknownEntered : f.task_hash \in processed_tasks

\* A call for a valid queue that reaches the membership test after a call
\* with an unknown queue name inserted the same fingerprint is skipped, and
\* the store is left as it is.
C36_LaterSkipped ==
    \A x \in running :
        (/\ x.pc = "test" /\ ~UnknownQueue(x)
         /\ x \notin running'
         /\ \E f \in UnknownEntered : f.task_hash = x.task_hash) =>
            /\ At(x, "skipped") \in finished'
            /\ \A y \in running' : y.id # x.id
            /\ collection' = collection

\* C36: a task routed with an unknown queue name still has its fingerprint
\* inserted into processed_tasks and never released, so an identical payload
\* arriving later on a valid queue is skipped without being processed.
C36_UnknownQueueBlocksPayload == []C36_NeverReleased /\ [][C36_LaterSkipped]_vars

\* The call with the unknown name has ended, and the later call with the
\* same payload for process-text was skipped.
C36_Witness ==
    \E f, x \in finished :
        /\ UnknownQueue(f) /\ f.pc = "returned"
        /\ x.queue_name = "process-text" /\ x.pc = "skipped"
        /\ x.task_data = f.task_data /\ x.task_data.kind = "dict"
        /\ x.calls = <<>>

\* The poller of q ends an iteration in which executor.submit raised.
Refusal(q) ==
    /\ main.pc = "shutdown"
    /\ poller[q].pc = "loads" /\ WellFormed(poller[q].text)
    /\ poller'[q] # poller[q]

\* The refused task is gone: nothing is submitted, nothing is put back on a
\* list, no other part of the state changes, and the poller is at its next
\* brpop.
C37_Discarded ==
    \A q \in QueueNames :
        Refusal(q) =>
            /\ poller'[q] = Idle
            /\ work_queue' = work_queue
            /\ redis' = redis
            /\ UNCHANGED <<popped, running, finished, processed_tasks, collection>>

\* No step puts an element on a Redis list.
C37_NeverPushedBack == \A q \in QueueNames : Len(redis'[q]) <= Len(redis[q])

\* C37: if executor.submit raises in a poller (the pool has begun shutting
\* down while the daemon pollers keep running), the already-popped task is
\* discarded, it is not pushed back onto its queue, and the poller continues
\* with its next pop.
C37_RefusedTaskDiscarded == [][C37_Discarded /\ C37_NeverPushedBack]_vars

\* After the shutdown the poller of process-ytvideo popped a well-formed
\* task, lost it at submit, and has popped the next one.
C37_Witness ==
    /\ main.pc = "shutdown"
    /\ popped["process-ytvideo"] = 2
    /\ poller["process-ytvideo"].pc = "loads"
    /\ work_queue = <<>>
    /\ running = {} /\ finished = {}

\* The record has field k with the same value before and after, or has it
\* neither before nor after.
Kept(old, new, k) ==
    /\ (k \in DOMAIN old) = (k \in DOMAIN new)
    /\ Field(old, k, None) = Field(new, k, None)

\* A step that leaves a record with FAILED statuses (an update carrying a
\* generator error) keeps its summary, flashcards and mcqs; one that leaves
\* it with COMPLETED statuses (an update carrying an artifact) keeps its
\* processing_error.
C38_FrameOfUpdate ==
    \A d \in DOMAIN collection \cap DOMAIN collection' :
        collection'[d] # collection[d] =>
            /\ StatusesOf(collection'[d]) = {"FAILED"} =>
                  \A k \in ArtifactFields : Kept(collection[d], collection'[d], k)
            /\ StatusesOf(collection'[d]) = {"COMPLETED"} =>
                  Kept(collection[d], collection'[d], "processing_error")

\* A record never has a processing_error without an update that failed, and
\* never content without one that completed.
C38_NothingCleared ==
    \A d \in DOMAIN collection :
        /\ (\E f \in Started : \E i \in UpdatesOf(f) :
               /\ f.calls[i].args[1] = d /\ f.calls[i].ret = "matched"
               /\ "processing_error" \in DOMAIN f.calls[i].set)
              => "processing_error" \in DOMAIN collection[d]
        /\ (\E f \in Started : \E i \in UpdatesOf(f) :
               /\ f.calls[i].args[1] = d /\ f.calls[i].ret = "matched"
               /\ "summary" \in DOMAIN f.calls[i].set)
              => Field(collection[d], "summary", None) = "summary-1"

\* C38: a store update carrying a generator error leaves the record's
\* stored summary, flashcards and mcqs unchanged, and one carrying a valid
\* artifact leaves a stored processing_error unchanged; so after a failed
\* run followed by a successful run on the same record, the record has
\* COMPLETED statuses together with the old processing_error.
C38_UpdatesLeaveOtherFields == []C38_NothingCleared /\ [][C38_FrameOfUpdate]_vars

\* A run failed and a later run on the same record succeeded: COMPLETED
\* statuses beside the processing_error of the first.
C38_Witness ==
    /\ "d1" \in DOMAIN collection
    /\ StatusesOf(collection["d1"]) = {"COMPLETED"}
    /\ Field(collection["d1"], "summary", None) = "summary-1"
    /\ Field(collection["d1"], "processing_error", None)
          = "Failed to generate valid JSON after 3 attempts"

\* What generate_stuff returns when the response of its last pass does not
\* parse.
ParsingFailed == "JSON parsing failed after 3 attempts"

\* The response generate_stuff is looking at.
LastResponse == gen.responses[Len(gen.responses)]

\* generate_response is inside the model call at most max_retries times per
\* pass, so generate_stuff causes at most max_attempts * max_retries model
\* calls, and no exception leaves either function.
C39_CallsBounded ==
    /\ gen.pc # "raised"
    /\ gen.retry <= max_retries - 1
    /\ gen.solicited <= max_attempts * max_retries
    /\ gen.solicited <= max_retries * (gen.attempt + 1)

\* The model call made on the last try always ends the call of
\* generate_response with a value for generate_stuff, raised or not.
C39_ReturnsAfterLastTry ==
    (/\ gen.pc = "generate_content" /\ gen.retry = max_retries - 1
     /\ gen'.solicited # gen.solicited) =>
        /\ gen'.pc = "loads"
        /\ Len(gen'.responses) = Len(gen.responses) + 1

\* The error string goes the way of a response that is not JSON: the next
\* pass, or on the last pass the JSON-parsing error value.
C39_ErrorStringFailsParsing ==
    (gen.pc = "loads" /\ LastResponse.body = "text") =>
        IF gen.attempt = max_attempts - 1
        THEN gen'.pc = "done" /\ gen'.result = ParsingFailed
        ELSE /\ gen'.pc = "generate_content"
             /\ gen'.attempt = gen.attempt + 1
             /\ gen'.solicited = gen.solicited

\* C39: generate_response never raises: after 3 failed model calls it
\* returns an error string, which generate_stuff treats as a model response
\* that fails JSON parsing; hence one generate_stuff call makes at most
\* 3 x 3 = 9 model calls, and exhaustion of the transient-failure retries
\* surfaces to the pipeline as a JSON-parsing error value.
C39_RetriesExhausted ==
    /\ []C39_CallsBounded
    /\ [][C39_ReturnsAfterLastTry /\ C39_ErrorStringFailsParsing]_vars

\* Every one of the nine model calls failed.
C39_Witness ==
    /\ gen.pc = "done"
    /\ gen.solicited = max_attempts * max_retries
    /\ \A i \in 1..max_attempts : gen.responses[i] = ErrorAfterRetries
    /\ gen.result = ParsingFailed

=============================================================================
